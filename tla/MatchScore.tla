------------------------------ MODULE MatchScore ------------------------------
(***************************************************************************)
(* compute_score of matching/strategy.py: hard constraints first, then a   *)
(* weighted sum, scaled by reputation and session affinity.                *)
(*                                                                         *)
(* The parts of the sum are fixed-point numbers of Unit, which divides     *)
(* evenly into the parts of every offer (IsExact); the reputation is a     *)
(* fraction of repUnit.  Only comparisons of two scores of one order mean  *)
(* anything.                                                               *)
(***************************************************************************)
EXTENDS Integers

CONSTANT Unit

ASSUME UnitAssumption == Unit \in Nat \ {0} /\ Unit % 4 = 0

\* The parts of an offer's score are whole numbers of Unit
IsExact(f) ==
    /\ Unit % (1 + f.price) = 0 /\ (Unit * f.speed) % (10 + f.speed) = 0
    /\ Unit % f.total = 0

Preferences == {"cheapest", "fastest", "most_secure", "balanced"}
Weights ==
    [cheapest    |-> [price |-> 60, speed |-> 15, trust |-> 10, load |-> 15],
     fastest     |-> [price |-> 10, speed |-> 60, trust |-> 10, load |-> 20],
     most_secure |-> [price |-> 10, speed |-> 10, trust |-> 60, load |-> 20],
     balanced    |-> [price |-> 35, speed |-> 25, trust |-> 20, load |-> 20]]

\* ProviderOffer.available_slots
Free(f) == IF f.total > f.used THEN f.total - f.used ELSE 0

\* An order's model may be "default"
Serves(o, f) == o.model = "default" \/ o.model \in f.models

\* The constraints of an order that no preference and no affinity may relax
Meets(o, f) == Serves(o, f) /\ f.price <= o.ceiling /\ f.level >= o.floor

\* Variant of Eligible: a full provider still counts
EligibleWhenFull(o, f) == Meets(o, f)

Eligible(o, f) == Meets(o, f) /\ Free(f) > 0

\* Variant of Soft: dearer is better
SoftByPrice(w, f) ==
    w.price * Unit * f.price + w.speed * ((Unit * f.speed) \div (10 + f.speed))
  + w.trust * ((Unit * f.level) \div 4) + w.load * ((Unit * Free(f)) \div f.total)

\* Price, speed, trust and load
Soft(w, f) ==
    w.price * (Unit \div (1 + f.price)) + w.speed * ((Unit * f.speed) \div (10 + f.speed))
  + w.trust * ((Unit * f.level) \div 4) + w.load * ((Unit * Free(f)) \div f.total)

\* Reputation scales between one half and one, affinity adds a fifth
Score(o, f, repUnit) ==
    IF ~Eligible(o, f) THEN -1
    ELSE Soft(Weights[o.preference], f) * (repUnit + f.reputation)
         * (IF o.affinity = f.provider THEN 12 ELSE 10)

\* In everything that a score is made of
AtLeastAsGood(f, g) ==
    /\ f.price <= g.price /\ f.speed >= g.speed /\ f.level >= g.level
    /\ f.reputation >= g.reputation /\ Free(f) * g.total >= Free(g) * f.total

=============================================================================
