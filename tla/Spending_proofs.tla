---------------------------- MODULE Spending_proofs ----------------------------
(***************************************************************************)
(* Proofs about Spending for every set of accounts, requests and prices    *)
(* and every set of limits an operator may choose from; and, at the end,   *)
(* about CountryActivity, which the billing of a request also feeds.       *)
(***************************************************************************)
EXTENDS Spending, CountryActivity, FiniteSetTheorems, FoldLemmas, TLAPS

(* The facts about prices that the steps need.                               *)
LEMMA Prices ==
  ASSUME NEW raw \in RawCosts
  PROVE  /\ TotalCost(raw) \in Nat
         /\ TotalCost(raw) <= MaxCost
         /\ PlatformFee(TotalCost(raw)) \in Nat
         /\ ProviderEarning(TotalCost(raw)) \in Nat
<1>1. TotalCost(raw) \in Nat /\ TotalCost(raw) <= MaxCost
  BY SpendingAssumption DEF TotalCost, MIN_CHARGE_MICRO
<1>2. ASSUME NEW c \in Nat
      PROVE  PlatformFee(c) \in Nat /\ ProviderEarning(c) \in Nat
  <2>1. (c * 10) \div 100 \in Nat /\ (c * 10) \div 100 <= c
    OBVIOUS
  <2>2. QED
    BY <2>1 DEF PlatformFee, ProviderEarning, PLATFORM_FEE_PERCENT
<1>3. QED
  BY <1>1, <1>2

(* A set of requests is finite, and its subsets are not larger.              *)
LEMMA RequestSets ==
  ASSUME NEW H \in SUBSET Requests, NEW U \in SUBSET H
  PROVE  /\ IsFiniteSet(H) /\ IsFiniteSet(U)
         /\ Cardinality(H) \in Nat /\ Cardinality(U) \in Nat
         /\ Cardinality(U) <= Cardinality(H)
<1>1. IsFiniteSet(H)
  BY FS_Subset, SpendingAssumption
<1>2. IsFiniteSet(U) /\ Cardinality(U) <= Cardinality(H)
  BY <1>1, FS_Subset
<1>3. QED
  BY <1>1, <1>2, FS_CardinalityType

(* Holders are finitely many.                                                *)
LEMMA HoldersFinite ==
  ASSUME NEW a
  PROVE  IsFiniteSet(Holders(a)) /\ Cardinality(Holders(a)) \in Nat
<1>1. Holders(a) \in SUBSET Requests
  BY DEF Holders
<1>2. QED
  BY <1>1, RequestSets

(* The cost of more requests is higher, and of one more by MaxCost.          *)
LEMMA CostMonotone ==
  ASSUME NEW k \in Int, NEW l \in Int, k <= l
  PROVE  /\ MaxCost * k \in Int /\ MaxCost * l \in Int
         /\ MaxCost * k <= MaxCost * l
         /\ MaxCost * (k + 1) = MaxCost * k + MaxCost
<1>1. MaxCost \in Nat
  BY SpendingAssumption
<1> DEFINE d == l - k
<1>2. d \in Nat /\ l = k + d
  OBVIOUS
<1>3. /\ MaxCost * d \in Nat /\ MaxCost * l = MaxCost * k + MaxCost * d
      /\ MaxCost * (k + 1) = MaxCost * k + MaxCost
      /\ MaxCost * k \in Int
  BY <1>1, <1>2, SMT
<1>4. QED
  BY <1>1, <1>3, SMT

(* The payer of a request is an account that is no provider's.               *)
LEMMA PayerType ==
  ASSUME NEW r \in Requests
  PROVE  Payer[r] \in Accounts /\ Payer[r] \notin Providers
BY SpendingAssumption

-----------------------------------------------------------------------------
(* Type correctness.                                                         *)

(* What the charges of the Store leave typed.                                *)
LEMMA ChargeType ==
  ASSUME LedgerTypeOK, NEW c \in Accounts, NEW v \in Accounts,
         NEW raw \in RawCosts, ChargeRequest(c, v, raw)
  PROVE  LedgerTypeOK'
<1> DEFINE cost == TotalCost(raw)
           earning == ProviderEarning(cost)
           bill == [consumer |-> c, provider |-> v, cost |-> cost,
                    earning |-> earning, fee |-> PlatformFee(cost)]
<1>1. cost \in Nat /\ earning \in Nat /\ PlatformFee(cost) \in Nat
  BY Prices
<1>2. bill \in Bill
  BY <1>1 DEF Bill
<1> HIDE DEF cost, earning
<1>3. row' \in [Accounts -> {"absent", "present", "deleted"}]
  BY DEF ChargeRequest, LedgerTypeOK, Opened
<1>4. balance' \in [Accounts -> Int]
  <2>1. Updated(balance, c, -cost) \in [Accounts -> Int]
    BY <1>1 DEF Updated, LedgerTypeOK
  <2>2. Funded(Updated(balance, c, -cost), v) \in [Accounts -> Int]
    BY <2>1 DEF Funded, Grant, MICRO_PER_DOLLAR
  <2>3. QED
    BY <1>1, <2>2 DEF ChargeRequest, cost, earning
<1>5. spent' \in [Accounts -> Nat]
  <2>1. Updated(spent, c, cost) \in [Accounts -> Nat]
    BY <1>1 DEF Updated, LedgerTypeOK
  <2>2. Zeroed(Updated(spent, c, cost), v) \in [Accounts -> Nat]
    BY <2>1 DEF Zeroed
  <2>3. QED
    BY <2>2 DEF ChargeRequest, cost
<1>6. earned' \in [Accounts -> Nat]
  <2>1. Zeroed(earned, v) \in [Accounts -> Nat]
    BY DEF Zeroed, LedgerTypeOK
  <2>2. QED
    BY <1>1, <2>1 DEF ChargeRequest, cost, earning
<1>7. transactions' \in Seq(Bill)
  BY <1>2 DEF ChargeRequest, LedgerTypeOK, cost, earning
<1>8. granted' \in [Accounts -> Int]
  BY DEF ChargeRequest, Funded, Grant, MICRO_PER_DOLLAR, LedgerTypeOK
<1>9. QED
  BY <1>3, <1>4, <1>5, <1>6, <1>7, <1>8 DEF LedgerTypeOK

(* What taking, giving back and redefining slots leaves typed.               *)
LEMMA ControlsType ==
  ASSUME ControlsTypeOK,
         \/ \E a \in Accounts : Acquire(a) \/ Release(a)
         \/ UpdateControls
         \/ UNCHANGED controlVars
  PROVE  ControlsTypeOK'
<1>1. CASE \E a \in Accounts : Acquire(a) \/ Release(a)
  BY <1>1 DEF ControlsTypeOK, Acquire, Release
<1>2. CASE UpdateControls
  BY <1>2 DEF ControlsTypeOK, UpdateControls
<1>3. CASE UNCHANGED controlVars
  BY <1>3 DEF ControlsTypeOK, controlVars
<1>4. QED
  BY <1>1, <1>2, <1>3

(* What the other operations on accounts leave typed.                        *)
LEMMA AccountType ==
  ASSUME LedgerTypeOK, NEW a \in Accounts,
         \/ CreateAccount(a)
         \/ EnsureAccount(a)
         \/ DeleteAccount(a)
         \/ ResetDevBalance(a)
  PROVE  LedgerTypeOK'
<1>1. /\ Grant \in Int
      /\ Opened(a) \in [Accounts -> {"absent", "present", "deleted"}]
      /\ Funded(balance, a) \in [Accounts -> Int]
      /\ Funded(granted, a) \in [Accounts -> Int]
      /\ Zeroed(spent, a) \in [Accounts -> Nat]
      /\ Zeroed(earned, a) \in [Accounts -> Nat]
  BY DEF LedgerTypeOK, Opened, Funded, Zeroed, Grant, MICRO_PER_DOLLAR
<1>2. CASE EnsureAccount(a)
  BY <1>1, <1>2 DEF LedgerTypeOK, EnsureAccount
<1>3. CASE CreateAccount(a)
  BY <1>2, <1>3 DEF CreateAccount
<1>4. CASE DeleteAccount(a)
  <2>1. row' \in [Accounts -> {"absent", "present", "deleted"}]
    BY <1>4 DEF LedgerTypeOK, DeleteAccount
  <2>2. balance' \in [Accounts -> Int]
    BY <1>4 DEF LedgerTypeOK, DeleteAccount
  <2>3. /\ spent' \in [Accounts -> Nat] /\ earned' \in [Accounts -> Nat]
        /\ granted' \in [Accounts -> Int]
    BY <1>4 DEF LedgerTypeOK, DeleteAccount
  <2>4. QED
    BY <1>4, <2>1, <2>2, <2>3 DEF LedgerTypeOK, DeleteAccount
<1>5. CASE ResetDevBalance(a)
  BY <1>1, <1>5 DEF LedgerTypeOK, ResetDevBalance
<1>6. QED
  BY <1>2, <1>3, <1>4, <1>5

(* A step that leaves the money tables alone.                                *)
LEMMA LedgerFrame ==
  ASSUME LedgerTypeOK, UNCHANGED ledgerVars
  PROVE  LedgerTypeOK'
BY DEF LedgerTypeOK, ledgerVars

(* Every variable of Spending keeps its type: in particular no slot counter  *)
(* of operator_controls.py falls below zero.                                 *)
THEOREM TypeCorrect == Spec => []TypeOK
<1>1. Init => TypeOK
  BY DEF Init, TypeOK, ControlsInit, ControlsTypeOK, LedgerInit, LedgerTypeOK,
         Stages, Bill, ControlsAssumption
<1>2. TypeOK /\ [Next]_vars => TypeOK'
  <2> SUFFICES ASSUME TypeOK, [Next]_vars PROVE TypeOK'
    OBVIOUS
  <2> USE DEF TypeOK, Holding, Chargeable, Started, Stages
  <2>1. ASSUME NEW a \in Accounts, AccountStep(a) PROVE TypeOK'
    <3>1. LedgerTypeOK' /\ UNCHANGED <<controlVars, requestVars>>
      BY <2>1, AccountType
      DEF AccountStep, SignUp, ProviderConnects, DeleteUser, ResetBalance
    <3>2. QED
      BY <3>1, ControlsType DEF requestVars
  <2>2. ASSUME NEW r \in Requests, RequestStep(r) PROVE TypeOK'
    <3> Payer[r] \in Accounts
      BY PayerType
    <3>1. CASE RefuseByControls(r) \/ RefuseUnfunded(r)
      <4>1. UNCHANGED <<controlVars, ledgerVars>>
        BY <3>1 DEF RefuseByControls, RefuseUnfunded
      <4>2. QED
        BY <3>1, <4>1, ControlsType, LedgerFrame
        DEF RefuseByControls, RefuseUnfunded, Refused
    <3>2. CASE Admit(r)
      BY <3>2, ControlsType, LedgerFrame DEF Admit
    <3>3. CASE HandlerEnds(r) \/ BodyEnds(r) \/ BodyDropped(r)
      BY <3>3, ControlsType, LedgerFrame DEF HandlerEnds, BodyEnds, BodyDropped
    <3>4. CASE \/ HandlerStreams(r) \/ BodyStarts(r) \/ BodyNeverStarts(r)
               \/ RelayCloses(r)
      BY <3>4, ControlsType, LedgerFrame
      DEF HandlerStreams, BodyStarts, BodyNeverStarts, RelayCloses
    <3>5. ASSUME NEW v \in Providers, NEW raw \in RawCosts, Settle(r, v, raw)
          PROVE  TypeOK'
      <4>1. v \in Accounts
        BY SpendingAssumption
      <4>2. LedgerTypeOK'
        BY <3>5, <4>1, ChargeType DEF Settle
      <4>3. QED
        BY <3>5, <4>2, ControlsType DEF Settle
    <3>6. QED
      BY <2>2, <3>1, <3>2, <3>3, <3>4, <3>5 DEF RequestStep
  <2>3. CASE OperatorUpdates
    <3>1. ControlsTypeOK'
      BY <2>3, ControlsType DEF OperatorUpdates
    <3>2. LedgerTypeOK'
      BY <2>3, LedgerFrame DEF OperatorUpdates
    <3>3. QED
      BY <2>3, <3>1, <3>2 DEF OperatorUpdates, requestVars
  <2>4. CASE UNCHANGED vars
    <3>1. ControlsTypeOK'
      BY <2>4, ControlsType DEF vars
    <3>2. LedgerTypeOK'
      BY <2>4, LedgerFrame DEF vars
    <3>3. QED
      BY <2>4, <3>1, <3>2 DEF vars, requestVars
  <2>5. QED
    BY <2>1, <2>2, <2>3, <2>4 DEF Next
<1>3. QED
  BY <1>1, <1>2, PTL DEF Spec

-----------------------------------------------------------------------------
(* The steps of the slot counters.                                           *)

(* A handler that has just taken a slot is one more holder of its account.   *)
LEMMA SlotTaken ==
  ASSUME TypeOK, SlotsAreHeld, NEW r \in Requests, stage[r] = "new",
         Acquire(Payer[r]), stage' = [stage EXCEPT ![r] = "running"]
  PROVE  SlotsAreHeld'
<1> SUFFICES ASSUME NEW a \in Accounts PROVE inUse'[a] = Cardinality(Holders(a)')
  BY DEF SlotsAreHeld
<1>1. r \notin Holders(a)
  BY DEF Holders, Holding, Started
<1>2. CASE a = Payer[r]
  <2>1. Holders(a)' = Holders(a) \cup {r}
    BY <1>2 DEF Holders, Holding, Started, TypeOK
  <2>2. Cardinality(Holders(a)') = Cardinality(Holders(a)) + 1
    BY <1>1, <2>1, HoldersFinite, FS_AddElement
  <2>3. QED
    BY <1>2, <2>2 DEF SlotsAreHeld, Acquire, TypeOK, ControlsTypeOK
<1>3. CASE a # Payer[r]
  <2>1. Holders(a)' = Holders(a)
    BY <1>3 DEF Holders, TypeOK
  <2>2. QED
    BY <1>3, <2>1 DEF SlotsAreHeld, Acquire, TypeOK, ControlsTypeOK
<1>4. QED
  BY <1>2, <1>3

(* A handler or body that ends is one holder less, and releases one slot.    *)
LEMMA SlotGivenBack ==
  ASSUME TypeOK, SlotsAreHeld, NEW r \in Requests, stage[r] \in Started,
         Release(Payer[r]), NEW over \in {"ended", "lingering"},
         stage' = [stage EXCEPT ![r] = over]
  PROVE  SlotsAreHeld'
<1> SUFFICES ASSUME NEW a \in Accounts PROVE inUse'[a] = Cardinality(Holders(a)')
  BY DEF SlotsAreHeld
<1>1. CASE a = Payer[r]
  <2>1. r \in Holders(a) /\ Holders(a)' = Holders(a) \ {r}
    BY <1>1 DEF Holders, Holding, Started, TypeOK
  <2>2. Cardinality(Holders(a)') = Cardinality(Holders(a)) - 1
    BY <2>1, HoldersFinite, FS_RemoveElement
  <2>3. Cardinality(Holders(a)) # 0
    BY <2>1, HoldersFinite, FS_EmptySet
  <2>4. QED
    BY <1>1, <2>2, <2>3, HoldersFinite
    DEF SlotsAreHeld, Release, TypeOK, ControlsTypeOK
<1>2. CASE a # Payer[r]
  <2>1. Holders(a)' = Holders(a)
    BY <1>2 DEF Holders, TypeOK
  <2>2. QED
    BY <1>2, <2>1 DEF SlotsAreHeld, Release, TypeOK, ControlsTypeOK
<1>3. QED
  BY <1>1, <1>2

(* A step that neither starts nor ends a holder.                             *)
LEMMA SlotsKept ==
  ASSUME SlotsAreHeld, inUse' = inUse,
         \A r \in Requests : stage'[r] \in Holding <=> stage[r] \in Holding
  PROVE  SlotsAreHeld' /\ \A a \in Accounts : Holders(a)' = Holders(a)
BY DEF SlotsAreHeld, Holders

(* No account holds more slots than the highest limit after a step of the    *)
(* counters.                                                                 *)
LEMMA LimitKept ==
  ASSUME TypeOK, SlotsWithinLimit,
         \/ \E a \in Accounts : Acquire(a) \/ Release(a)
         \/ inUse' = inUse
  PROVE  SlotsWithinLimit'
<1>1. \A l \in Limits : l \in Nat /\ l <= MaxLimit
  BY SpendingAssumption, ControlsAssumption
<1>2. ASSUME NEW a \in Accounts, Acquire(a) PROVE SlotsWithinLimit'
  BY <1>1, <1>2, SpendingAssumption
  DEF SlotsWithinLimit, Acquire, AtLimit, TypeOK, ControlsTypeOK
<1>3. ASSUME NEW a \in Accounts, Release(a) PROVE SlotsWithinLimit'
  BY <1>1, <1>3, SpendingAssumption
  DEF SlotsWithinLimit, Release, TypeOK, ControlsTypeOK
<1>4. CASE inUse' = inUse
  BY <1>4 DEF SlotsWithinLimit
<1>5. QED
  BY <1>2, <1>3, <1>4

-----------------------------------------------------------------------------
(* The steps of the money.                                                   *)

Secured(a) == balance[a] + MaxCost * Spare(a) > 0

(* What an account may be charged for is a number, and after a step that     *)
(* keeps the slots counted and within the limit it is not negative.          *)
LEMMA SpareType ==
  ASSUME TypeOK, NEW a \in Accounts
  PROVE  /\ Spare(a) \in Int /\ Spare(a) <= MaxLimit + Cardinality(Late(a))
         /\ Cardinality(Late(a)) \in Nat
<1>1. /\ Holders(a) \in SUBSET Requests /\ Unbilled(a) \in SUBSET Holders(a)
      /\ Late(a) \in SUBSET Requests
  BY DEF Holders, Unbilled, Late, TypeOK
<1>2. Cardinality(Unbilled(a)) \in Nat /\ Cardinality(Late(a)) \in Nat
  BY <1>1, RequestSets
<1>3. QED
  BY <1>2, SpendingAssumption DEF Spare

LEMMA SpareNotNegative ==
  ASSUME TypeOK', SlotsAreHeld', SlotsWithinLimit', 0 \notin Limits,
         NEW a \in Accounts
  PROVE  Spare(a)' \in Nat
<1>1. /\ Holders(a)' \in SUBSET Requests /\ Unbilled(a)' \in SUBSET Holders(a)'
      /\ Late(a)' \in SUBSET Requests
  BY DEF Holders, Unbilled, Late, TypeOK
<1>2. /\ Cardinality(Unbilled(a)') \in Nat /\ Cardinality(Holders(a)') \in Nat
      /\ Cardinality(Unbilled(a)') <= Cardinality(Holders(a)')
      /\ Cardinality(Late(a)') \in Nat
  BY <1>1, RequestSets
<1>3. Cardinality(Holders(a)') <= MaxLimit
  BY DEF SlotsAreHeld, SlotsWithinLimit
<1>4. QED
  BY <1>2, <1>3, SpendingAssumption DEF Spare

(* Fewer requests that hold a slot unbilled leave at least as much to spare; *)
(* a bill of one of them, or a late one, leaves one more.                    *)
LEMMA SpareMoves ==
  ASSUME TypeOK, TypeOK', NEW a \in Accounts
  PROVE  /\ Unbilled(a)' \subseteq Unbilled(a) /\ Late(a)' = Late(a)
              => Spare(a)' >= Spare(a)
         /\ \A r \in Unbilled(a) :
              Unbilled(a)' = Unbilled(a) \ {r} /\ Late(a)' = Late(a)
                => Spare(a)' = Spare(a) + 1
         /\ \A r \in Requests \ Late(a) :
              Unbilled(a)' = Unbilled(a) /\ Late(a)' = Late(a) \cup {r}
                => Spare(a)' = Spare(a) + 1
<1>1. /\ IsFiniteSet(Unbilled(a)) /\ Cardinality(Unbilled(a)) \in Nat
      /\ IsFiniteSet(Late(a)) /\ Cardinality(Late(a)) \in Nat
  <2>1. Unbilled(a) \in SUBSET Requests /\ Late(a) \in SUBSET Requests
    BY DEF Holders, Unbilled, Late, TypeOK
  <2>2. QED
    BY <2>1, RequestSets
<1>2. ASSUME Unbilled(a)' \subseteq Unbilled(a), Late(a)' = Late(a)
      PROVE  Spare(a)' >= Spare(a)
  <2>1. /\ Cardinality(Unbilled(a)') <= Cardinality(Unbilled(a))
        /\ Cardinality(Unbilled(a)') \in Nat
    BY <1>1, <1>2, FS_Subset, FS_CardinalityType
  <2>2. QED
    BY <1>1, <1>2, <2>1, SpendingAssumption DEF Spare
<1>3. ASSUME NEW r \in Unbilled(a), Unbilled(a)' = Unbilled(a) \ {r},
             Late(a)' = Late(a)
      PROVE  Spare(a)' = Spare(a) + 1
  <2>1. Cardinality(Unbilled(a)') = Cardinality(Unbilled(a)) - 1
    BY <1>1, <1>3, FS_RemoveElement
  <2>2. QED
    BY <1>1, <1>3, <2>1, SpendingAssumption DEF Spare
<1>4. ASSUME NEW r \in Requests \ Late(a), Unbilled(a)' = Unbilled(a),
             Late(a)' = Late(a) \cup {r}
      PROVE  Spare(a)' = Spare(a) + 1
  <2>1. Cardinality(Late(a)') = Cardinality(Late(a)) + 1
    BY <1>1, <1>4, FS_AddElement
  <2>2. QED
    BY <1>1, <1>4, <2>1, SpendingAssumption DEF Spare
<1>5. QED
  BY <1>2, <1>3, <1>4

(* An account stays secured if it has money after the step, or lost neither  *)
(* money nor what it had to spare, or paid for one request.                  *)
LEMMA CreditKept ==
  ASSUME TypeOK, TypeOK', SlotsAreHeld', SlotsWithinLimit', CreditLeft,
         0 \notin Limits, NEW a \in Accounts, row'[a] = "present",
         \/ balance'[a] > 0
         \/ /\ row[a] = "present"
            /\ balance'[a] >= balance[a]
            /\ Spare(a)' >= Spare(a)
         \/ /\ row[a] = "present"
            /\ Spare(a)' = Spare(a) + 1
            /\ \E c \in Nat : c <= MaxCost /\ balance'[a] = balance[a] - c
  PROVE  Secured(a)'
<1>1. /\ balance[a] \in Int /\ balance'[a] \in Int /\ MaxCost \in Nat
      /\ Spare(a) \in Int /\ Spare(a)' \in Int
  BY SpareType, SpareNotNegative, SpendingAssumption DEF TypeOK, LedgerTypeOK
<1>2. row[a] = "present" => balance[a] + MaxCost * Spare(a) > 0
  BY DEF CreditLeft
<1>3. CASE balance'[a] > 0
  <2>1. Spare(a)' \in Nat
    BY SpareNotNegative
  <2>2. MaxCost * Spare(a)' >= 0
    BY <1>1, <2>1, SMT
  <2>3. QED
    BY <1>1, <1>3, <2>2 DEF Secured
<1>4. CASE /\ row[a] = "present"
           /\ balance'[a] >= balance[a]
           /\ Spare(a)' >= Spare(a)
  <2>1. /\ MaxCost * Spare(a)' >= MaxCost * Spare(a)
        /\ MaxCost * Spare(a) \in Int /\ MaxCost * Spare(a)' \in Int
    BY <1>1, <1>4, CostMonotone
  <2>2. QED
    BY <1>1, <1>2, <1>4, <2>1 DEF Secured
<1>5. CASE /\ row[a] = "present"
           /\ Spare(a)' = Spare(a) + 1
           /\ \E c \in Nat : c <= MaxCost /\ balance'[a] = balance[a] - c
  <2>1. /\ MaxCost * Spare(a)' = MaxCost * Spare(a) + MaxCost
        /\ MaxCost * Spare(a) \in Int
    BY <1>1, <1>5, CostMonotone
  <2>2. QED
    BY <1>1, <1>2, <1>5, <2>1 DEF Secured
<1>6. QED
  BY <1>3, <1>4, <1>5

(* CreditLeft, put together from the accounts.                               *)
LEMMA CreditOfAll ==
  ASSUME \A a \in Accounts :
           0 \notin Limits /\ row'[a] = "present" => Secured(a)'
  PROVE  CreditLeft'
BY DEF CreditLeft, Secured

-----------------------------------------------------------------------------
(* Every step keeps the slots counted, within the limit and paid for.        *)
LEMMA SpendingStep ==
  ASSUME TypeOK, TypeOK', SpendingIInv, [Next]_vars
  PROVE  SpendingIInv'
<1> SlotsAreHeld /\ SlotsWithinLimit /\ CreditLeft /\ LateInv
  BY DEF SpendingIInv
<1>1. ASSUME NEW x \in Accounts, AccountStep(x) PROVE SpendingIInv'
  <2>1. UNCHANGED <<inUse, stage, billed, late>>
    BY <1>1 DEF AccountStep, SignUp, ProviderConnects, DeleteUser, ResetBalance,
                controlVars, requestVars
  <2>2. SlotsAreHeld' /\ \A a \in Accounts : Holders(a)' = Holders(a)
    BY <2>1, SlotsKept
  <2>3. SlotsWithinLimit'
    BY <2>1, LimitKept
  <2>4. ASSUME NEW a \in Accounts, 0 \notin Limits, row'[a] = "present"
        PROVE  Secured(a)'
    <3>1. Spare(a)' >= Spare(a)
      BY <2>1, <2>2, SpareMoves DEF Unbilled, Late
    <3>2. CASE a # x
      <4>1. row[a] = "present" /\ balance'[a] = balance[a]
        BY <1>1, <2>4, <3>2
        DEF AccountStep, SignUp, ProviderConnects, DeleteUser, ResetBalance,
            CreateAccount, EnsureAccount, DeleteAccount, ResetDevBalance,
            Opened, Funded, TypeOK, LedgerTypeOK
      <4>2. balance'[a] >= balance[a]
        BY <4>1 DEF TypeOK, LedgerTypeOK
      <4>3. QED
        BY <2>2, <2>3, <2>4, <3>1, <4>1, <4>2, CreditKept
    <3>3. CASE a = x
      <4>1. balance'[a] = Grant
        BY <1>1, <2>4, <3>3
        DEF AccountStep, SignUp, ProviderConnects, DeleteUser, ResetBalance,
            CreateAccount, EnsureAccount, DeleteAccount, ResetDevBalance,
            Funded, TypeOK, LedgerTypeOK
      <4>2. balance'[a] > 0
        BY <4>1 DEF Grant, MICRO_PER_DOLLAR
      <4>3. QED
        BY <2>2, <2>3, <2>4, <4>2, CreditKept
    <3>4. QED
      BY <3>2, <3>3
  <2>5. QED
    BY <2>1, <2>2, <2>3, <2>4, CreditOfAll DEF SpendingIInv, LateInv
<1>2. ASSUME NEW r \in Requests, Admit(r) PROVE SpendingIInv'
  <2>1. Payer[r] \in Accounts
    BY PayerType
  <2>2. SlotsAreHeld'
    BY <1>2, SlotTaken DEF Admit, Arrives
  <2>3. SlotsWithinLimit'
    BY <1>2, <2>1, LimitKept DEF Admit
  <2>4. ASSUME NEW a \in Accounts, 0 \notin Limits, row'[a] = "present"
        PROVE  Secured(a)'
    <3>1. /\ row[a] = "present" /\ balance'[a] = balance[a]
          /\ billed' = billed /\ late' = late
      BY <1>2, <2>4 DEF Admit, ledgerVars
    <3>2. balance'[a] >= balance[a]
      BY <3>1 DEF TypeOK, LedgerTypeOK
    <3>3. CASE a = Payer[r]
      <4>1. balance'[a] > 0
        BY <1>2, <3>1, <3>3 DEF Admit
      <4>2. QED
        BY <2>2, <2>3, <2>4, <4>1, CreditKept
    <3>4. CASE a # Payer[r]
      <4>1. Unbilled(a)' \subseteq Unbilled(a) /\ Late(a)' = Late(a)
        BY <1>2, <3>1, <3>4 DEF Admit, Unbilled, Late, Holders, TypeOK
      <4>2. Spare(a)' >= Spare(a)
        BY <4>1, SpareMoves
      <4>3. QED
        BY <2>2, <2>3, <2>4, <3>1, <3>2, <4>2, CreditKept
    <3>5. QED
      BY <3>3, <3>4
  <2>5. QED
    BY <1>2, <2>2, <2>3, <2>4, CreditOfAll DEF SpendingIInv, LateInv, Admit
<1>3. ASSUME NEW r \in Requests, HandlerEnds(r) \/ BodyEnds(r) \/ BodyDropped(r)
      PROVE  SpendingIInv'
  <2>1. Payer[r] \in Accounts
    BY PayerType
  <2>2. SlotsAreHeld'
    BY <1>3, SlotGivenBack DEF HandlerEnds, BodyEnds, BodyDropped, Started
  <2>3. SlotsWithinLimit'
    BY <1>3, <2>1, LimitKept DEF HandlerEnds, BodyEnds, BodyDropped
  <2>4. ASSUME NEW a \in Accounts, 0 \notin Limits, row'[a] = "present"
        PROVE  Secured(a)'
    <3>1. row[a] = "present" /\ balance'[a] = balance[a]
      BY <1>3, <2>4 DEF HandlerEnds, BodyEnds, BodyDropped, ledgerVars
    <3>2. balance'[a] >= balance[a]
      BY <3>1 DEF TypeOK, LedgerTypeOK
    <3>3. Unbilled(a)' \subseteq Unbilled(a) /\ Late(a)' = Late(a)
      BY <1>3 DEF HandlerEnds, BodyEnds, BodyDropped, Unbilled, Late, Holders,
                  Holding, Started, TypeOK
    <3>4. Spare(a)' >= Spare(a)
      BY <3>3, SpareMoves
    <3>5. QED
      BY <2>2, <2>3, <2>4, <3>1, <3>2, <3>4, CreditKept
  <2>5. QED
    BY <1>3, <2>2, <2>3, <2>4, CreditOfAll
    DEF SpendingIInv, LateInv, HandlerEnds, BodyEnds, BodyDropped
<1>4. ASSUME UNCHANGED <<inUse, ledgerVars, billed, late>>,
             \A r \in Requests : stage'[r] \in Holding <=> stage[r] \in Holding
      PROVE  SpendingIInv'
  <2>1. SlotsAreHeld' /\ \A a \in Accounts : Holders(a)' = Holders(a)
    BY <1>4, SlotsKept
  <2>2. SlotsWithinLimit'
    BY <1>4, LimitKept
  <2>3. CreditLeft'
    BY <1>4, <2>1 DEF CreditLeft, Spare, Unbilled, Late, ledgerVars
  <2>4. QED
    BY <1>4, <2>1, <2>2, <2>3 DEF SpendingIInv, LateInv
<1>5. ASSUME NEW r \in Requests,
             \/ RefuseByControls(r) \/ RefuseUnfunded(r)
             \/ HandlerStreams(r) \/ BodyStarts(r) \/ BodyNeverStarts(r)
             \/ RelayCloses(r)
      PROVE  SpendingIInv'
  <2>1. UNCHANGED <<inUse, ledgerVars, billed, late>>
    BY <1>5 DEF RefuseByControls, RefuseUnfunded, HandlerStreams, BodyStarts,
                BodyNeverStarts, RelayCloses, Refused, controlVars
  <2>2. \A q \in Requests : stage'[q] \in Holding <=> stage[q] \in Holding
    BY <1>5 DEF RefuseByControls, RefuseUnfunded, HandlerStreams, BodyStarts,
                BodyNeverStarts, RelayCloses, Refused, Arrives, Holding, Started,
                TypeOK
  <2>3. QED
    BY <1>4, <2>1, <2>2
<1>6. CASE OperatorUpdates \/ UNCHANGED vars
  <2>1. UNCHANGED <<inUse, ledgerVars, billed, late, stage>>
    BY <1>6 DEF OperatorUpdates, UpdateControls, vars, controlVars, requestVars
  <2>2. QED
    BY <1>4, <2>1
<1>7. ASSUME NEW r \in Requests, NEW v \in Providers, NEW raw \in RawCosts,
             Settle(r, v, raw)
      PROVE  SpendingIInv'
  <2> DEFINE c == Payer[r]
             cost == TotalCost(raw)
  <2>1. c \in Accounts /\ v \in Accounts /\ c # v /\ row[v] = "present"
    BY <1>7, PayerType, SpendingAssumption DEF Settle
  <2>2. UNCHANGED <<inUse, stage>> /\ billed' = billed \cup {r} /\ r \notin billed
    BY <1>7 DEF Settle, controlVars
  <2>3. SlotsAreHeld' /\ \A a \in Accounts : Holders(a)' = Holders(a)
    BY <2>2, SlotsKept
  <2>4. SlotsWithinLimit'
    BY <2>2, LimitKept
  <2>5. /\ cost \in Nat /\ cost <= MaxCost
        /\ ProviderEarning(cost) \in Nat
    BY Prices
  <2>6. \A a \in Accounts : row'[a] = row[a]
    BY <1>7, <2>1 DEF Settle, ChargeRequest, Opened, TypeOK, LedgerTypeOK
  <2>7. balance' = [Updated(balance, c, -cost)
                      EXCEPT ![v] = @ + ProviderEarning(cost)]
    BY <1>7, <2>1 DEF Settle, ChargeRequest, Funded
  <2> HIDE DEF c, cost
  <2>8. ASSUME NEW a \in Accounts, 0 \notin Limits, row'[a] = "present"
        PROVE  Secured(a)'
    <3>1. row[a] = "present" /\ balance[a] \in Int
      BY <2>6, <2>8 DEF TypeOK, LedgerTypeOK
    <3>2. CASE a = c
      <4>1. balance'[a] = balance[a] - cost
        BY <2>1, <2>5, <2>7, <3>1, <3>2 DEF Updated, TypeOK, LedgerTypeOK
      <4>2. Spare(a)' = Spare(a) + 1
        <5>1. CASE stage[r] \in Holding
          <6>1. /\ r \in Unbilled(a) /\ Unbilled(a)' = Unbilled(a) \ {r}
                /\ Late(a)' = Late(a)
            BY <1>7, <2>2, <2>3, <3>2, <5>1
            DEF Unbilled, Late, Holders, Settle, c
          <6>2. QED
            BY <6>1, SpareMoves
        <5>2. CASE stage[r] \notin Holding
          <6>1. /\ r \notin Late(a) /\ Unbilled(a)' = Unbilled(a)
                /\ Late(a)' = Late(a) \cup {r}
            BY <1>7, <2>2, <2>3, <3>2, <5>2
            DEF SpendingIInv, LateInv, Unbilled, Late, Holders, Settle, c
          <6>2. QED
            BY <6>1, SpareMoves
        <5>3. QED
          BY <5>1, <5>2
      <4>3. QED
        BY <2>3, <2>4, <2>5, <2>8, <3>1, <4>1, <4>2, CreditKept
    <3>3. CASE a # c
      <4>1. balance'[a] >= balance[a]
        <5> DEFINE debited == Updated(balance, c, -cost)
                   credit == ProviderEarning(cost)
        <5>1. debited[a] = balance[a] /\ DOMAIN debited = Accounts
          BY <3>3 DEF Updated, TypeOK, LedgerTypeOK
        <5>2. balance' = [debited EXCEPT ![v] = debited[v] + credit]
          BY <2>7
        <5> HIDE DEF debited
        <5>3. balance'[a] = balance[a] \/ balance'[a] = balance[a] + credit
          BY <5>1, <5>2
        <5>4. QED
          BY <2>5, <3>1, <5>3
      <4>2. Unbilled(a)' \subseteq Unbilled(a) /\ Late(a)' = Late(a)
        BY <1>7, <2>2, <2>3, <3>3 DEF Unbilled, Late, Settle, c
      <4>3. Spare(a)' >= Spare(a)
        BY <4>2, SpareMoves
      <4>4. QED
        BY <2>3, <2>4, <2>8, <3>1, <4>1, <4>3, CreditKept
    <3>4. QED
      BY <3>2, <3>3
  <2>9. QED
    BY <1>7, <2>3, <2>4, <2>8, CreditOfAll DEF SpendingIInv, LateInv, Settle
<1>8. QED
  BY <1>1, <1>2, <1>3, <1>5, <1>6, <1>7 DEF Next, RequestStep

(* The slots an account holds are exactly its requests in flight, within the *)
(* highest limit, and the charges still to come are within its credit, for   *)
(* every schedule of admissions, charges, deletions and changed limits.      *)
THEOREM SpendingInvariance == Spec => []SpendingIInv
<1>1. Init => SpendingIInv
  <2> SUFFICES ASSUME Init PROVE SpendingIInv
    OBVIOUS
  <2>1. \A a \in Accounts : Holders(a) = {}
    BY DEF Init, Holders, Holding, Started
  <2>2. SlotsAreHeld
    BY <2>1, FS_EmptySet DEF SlotsAreHeld, Init, ControlsInit
  <2>3. SlotsWithinLimit
    <3>1. MaxLimit \in Nat
      BY SpendingAssumption
    <3>2. \A a \in Accounts : inUse[a] = 0
      BY DEF Init, ControlsInit
    <3>3. ASSUME NEW a \in Accounts PROVE inUse[a] <= MaxLimit
      BY <3>1, <3>2
    <3>4. QED
      BY <3>3, Zenon DEF SlotsWithinLimit
  <2>4. CreditLeft
    BY DEF CreditLeft, Init, LedgerInit
  <2>5. QED
    BY <2>2, <2>3, <2>4 DEF SpendingIInv, LateInv, Init
<1>2. TypeOK /\ TypeOK' /\ SpendingIInv /\ [Next]_vars => SpendingIInv'
  BY SpendingStep
<1>3. QED
  BY <1>1, <1>2, TypeCorrect, PTL DEF Spec

(* OPS-010: the counter of try_acquire and release is the number of requests *)
(* of the account that hold a slot.                                          *)
THEOREM SlotsCounted == Spec => []SlotsAreHeld
<1>1. SpendingIInv => SlotsAreHeld
  BY DEF SpendingIInv
<1>2. QED
  BY <1>1, SpendingInvariance, PTL

(* BILL-005: whatever the interleaving of balance checks and late charges, a *)
(* balance never falls below zero by the cost of MaxLimit requests and of    *)
(* those that were charged after they had given back their slot.             *)
THEOREM OverdraftBounded == Spec => []OverdraftIsBounded
<1>1. TypeOK /\ SpendingIInv => OverdraftIsBounded
  <2> SUFFICES ASSUME TypeOK, SpendingIInv, 0 \notin Limits,
                      NEW a \in Accounts, row[a] = "present"
               PROVE  balance[a] > -(MaxCost * (MaxLimit + Cardinality(Late(a))))
    BY DEF OverdraftIsBounded
  <2> DEFINE k == Spare(a)
             l == MaxLimit + Cardinality(Late(a))
  <2>1. k \in Int /\ l \in Int /\ k <= l
    BY SpareType, SpendingAssumption
  <2>2. balance[a] + MaxCost * k > 0
    BY DEF SpendingIInv, CreditLeft
  <2> HIDE DEF k, l
  <2>3. MaxCost * k \in Int /\ MaxCost * l \in Int /\ MaxCost * k <= MaxCost * l
    BY <2>1, CostMonotone
  <2>4. balance[a] \in Int
    BY DEF TypeOK, LedgerTypeOK
  <2>5. balance[a] > -(MaxCost * l)
    BY <2>2, <2>3, <2>4
  <2>6. QED
    BY <2>5 DEF l
<1>2. QED
  BY <1>1, TypeCorrect, SpendingInvariance, PTL

(* OPS-008 and OPS-010: nothing starts while inference is paused or above    *)
(* the limit in force, whatever is in flight and however often it changes.   *)
THEOREM AdmissionsObey == Spec => AdmissionObeysControls
<1>1. ASSUME TypeOK, TypeOK', SpendingIInv, SpendingIInv', [Next]_vars,
             NEW r \in Requests, stage[r] = "new", stage'[r] \in Holding
      PROVE  /\ ~paused
             /\ limit > 0 => Cardinality(Holders(Payer[r])') <= limit
  <2>1. stage'[r] # stage[r]
    BY <1>1 DEF Holding, Started
  <2>2. Admit(r)
    <3>1. PICK q \in Requests : RequestStep(q)
      BY <1>1, <2>1
      DEF Next, vars, requestVars, AccountStep, SignUp, ProviderConnects,
          DeleteUser, ResetBalance, OperatorUpdates
    <3>2. q = r
      BY <1>1, <2>1, <3>1
      DEF RequestStep, RefuseByControls, RefuseUnfunded, Refused, Admit,
          HandlerEnds, HandlerStreams, BodyStarts, BodyEnds, BodyDropped,
          RelayCloses, BodyNeverStarts, Settle, TypeOK
    <3>3. QED
      BY <1>1, <3>1, <3>2
      DEF RequestStep, RefuseByControls, RefuseUnfunded, Refused, HandlerEnds,
          HandlerStreams, BodyStarts, BodyEnds, BodyDropped, RelayCloses,
          BodyNeverStarts, Settle, Holding, Started, TypeOK, Chargeable
  <2>3. Payer[r] \in Accounts
    BY PayerType
  <2>4. limit > 0 => inUse'[Payer[r]] <= limit
    BY <1>1, <2>2, <2>3, ControlsAssumption
    DEF Admit, Acquire, AtLimit, TypeOK, ControlsTypeOK
  <2>5. inUse'[Payer[r]] = Cardinality(Holders(Payer[r])')
    BY <1>1, <2>3 DEF SpendingIInv, SlotsAreHeld
  <2>6. QED
    BY <2>2, <2>4, <2>5 DEF Admit
<1>2. TypeOK /\ TypeOK' /\ SpendingIInv /\ SpendingIInv' /\ [Next]_vars =>
        [\A r \in Requests :
           stage[r] = "new" /\ stage'[r] \in Holding =>
             /\ ~paused
             /\ limit > 0 => Cardinality(Holders(Payer[r])') <= limit]_vars
  BY <1>1
<1>3. QED
  BY <1>2, TypeCorrect, SpendingInvariance, PTL DEF Spec, AdmissionObeysControls

-----------------------------------------------------------------------------
(* A charge takes the cost from the consumer's balance and adds it to what   *)
(* the consumer spent, and does the same to the provider with the earning.   *)
LEMMA ChargeAddsUp ==
  ASSUME TypeOK, BalancesAddUp, NEW c \in Accounts, NEW v \in Accounts \ {c},
         NEW raw \in RawCosts, row[v] = "present", ChargeRequest(c, v, raw)
  PROVE  BalancesAddUp'
<1> DEFINE cost == TotalCost(raw)
           earning == ProviderEarning(cost)
<1>1. cost \in Nat /\ earning \in Nat
  BY Prices
<1>2. /\ balance' = [Updated(balance, c, -cost) EXCEPT ![v] = @ + earning]
      /\ spent' = Updated(spent, c, cost)
      /\ earned' = [earned EXCEPT ![v] = @ + earning]
      /\ granted' = granted
  BY DEF ChargeRequest, Funded, Zeroed
<1> DEFINE debited == Updated(balance, c, -cost)
<1> HIDE DEF cost, earning
<1> SUFFICES ASSUME NEW a \in Accounts
             PROVE  balance'[a] = granted'[a] - spent'[a] + earned'[a]
  BY DEF BalancesAddUp
<1>3. /\ balance[a] = granted[a] - spent[a] + earned[a]
      /\ balance[a] \in Int /\ granted[a] \in Int
      /\ spent[a] \in Nat /\ earned[a] \in Nat
  BY DEF BalancesAddUp, TypeOK, LedgerTypeOK
<1>4. /\ debited \in [Accounts -> Int]
      /\ debited[a] = IF a = c /\ row[c] = "present" THEN balance[a] - cost
                      ELSE balance[a]
      /\ spent'[a] = IF a = c /\ row[c] = "present" THEN spent[a] + cost
                     ELSE spent[a]
  <2>1. /\ c \in Accounts
        /\ balance \in [Accounts -> Int] /\ spent \in [Accounts -> Nat]
        /\ -cost \in Int /\ balance[c] - cost = balance[c] + (-cost)
    BY <1>1 DEF TypeOK, LedgerTypeOK
  <2>2. CASE row[c] = "present"
    <3>1. /\ debited = [balance EXCEPT ![c] = balance[c] + (-cost)]
          /\ spent' = [spent EXCEPT ![c] = spent[c] + cost]
      BY <1>2, <2>2 DEF Updated
    <3> DEFINE less == balance[c] + (-cost)
               more == spent[c] + cost
    <3>2. less \in Int /\ less = balance[c] - cost
      BY <1>1, <2>1
    <3> HIDE DEF less, more
    <3>3. debited = [balance EXCEPT ![c] = less] /\ spent' = [spent EXCEPT ![c] = more]
      BY <3>1 DEF less, more
    <3> HIDE DEF debited
    <3>4. /\ debited \in [Accounts -> Int]
          /\ debited[a] = IF a = c THEN less ELSE balance[a]
          /\ spent'[a] = IF a = c THEN more ELSE spent[a]
      BY <2>1, <3>2, <3>3
    <3>5. QED
      BY <2>2, <3>2, <3>4 DEF more
  <2>3. CASE row[c] # "present"
    BY <1>2, <2>1, <2>3 DEF Updated
  <2>4. QED
    BY <2>2, <2>3
<1>5. /\ balance'[a] = IF a = v THEN debited[a] + earning ELSE debited[a]
      /\ earned'[a] = IF a = v THEN earned[a] + earning ELSE earned[a]
  <2>1. balance' = [debited EXCEPT ![v] = debited[v] + earning]
    BY <1>2
  <2> HIDE DEF debited
  <2>2. QED
    BY <1>2, <1>4, <2>1 DEF TypeOK, LedgerTypeOK
<1> HIDE DEF debited
<1>6. QED
  BY <1>1, <1>2, <1>3, <1>4, <1>5

(* BILL-001: no grant, charge, reset or deletion changes a balance without   *)
(* the total that explains it.                                               *)
THEOREM BooksBalance == Spec => []BalancesAddUp
<1>1. Init => BalancesAddUp
  <2>1. ASSUME Init, NEW a \in Accounts
        PROVE  balance[a] = 0 /\ granted[a] = 0 /\ spent[a] = 0 /\ earned[a] = 0
    BY <2>1 DEF Init, LedgerInit
  <2>2. 0 = 0 - 0 + 0
    OBVIOUS
  <2>3. QED
    BY <2>1, <2>2, Zenon DEF BalancesAddUp
<1>2. ASSUME TypeOK, BalancesAddUp, [Next]_vars PROVE BalancesAddUp'
  <2>1. ASSUME NEW x \in Accounts, EnsureAccount(x) PROVE BalancesAddUp'
    <3>1. CASE row[x] = "present"
      BY <1>2, <2>1, <3>1 DEF EnsureAccount, Funded, Zeroed, BalancesAddUp
    <3>2. CASE row[x] # "present"
      <4>1. /\ balance' = [balance EXCEPT ![x] = Grant]
            /\ granted' = [granted EXCEPT ![x] = Grant]
            /\ spent' = [spent EXCEPT ![x] = 0]
            /\ earned' = [earned EXCEPT ![x] = 0]
        BY <2>1, <3>2 DEF EnsureAccount, Funded, Zeroed
      <4>2. Grant \in Int /\ Grant = Grant - 0 + 0
        BY DEF Grant, MICRO_PER_DOLLAR
      <4>3. QED
        BY <1>2, <4>1, <4>2 DEF BalancesAddUp, TypeOK, LedgerTypeOK
    <3>3. QED
      BY <3>1, <3>2
  <2>2. ASSUME NEW x \in Accounts, AccountStep(x) PROVE BalancesAddUp'
    <3>1. CASE EnsureAccount(x)
      BY <2>1, <3>1
    <3>2. CASE DeleteAccount(x)
      BY <1>2, <3>2 DEF DeleteAccount, BalancesAddUp, TypeOK, LedgerTypeOK
    <3>3. CASE ResetDevBalance(x)
      BY <1>2, <3>3
      DEF ResetDevBalance, BalancesAddUp, TypeOK, LedgerTypeOK, Grant, MICRO_PER_DOLLAR
    <3>4. QED
      BY <2>2, <3>1, <3>2, <3>3
      DEF AccountStep, SignUp, ProviderConnects, DeleteUser, ResetBalance,
          CreateAccount
  <2>3. ASSUME NEW r \in Requests, NEW v \in Providers, NEW raw \in RawCosts,
               Settle(r, v, raw)
        PROVE  BalancesAddUp'
    BY <1>2, <2>3, ChargeAddsUp, PayerType, SpendingAssumption DEF Settle
  <2>4. CASE UNCHANGED ledgerVars
    BY <1>2, <2>4 DEF ledgerVars, BalancesAddUp
  <2>5. QED
    BY <1>2, <2>2, <2>3, <2>4
    DEF Next, RequestStep, RefuseByControls, RefuseUnfunded, Admit, HandlerEnds,
        HandlerStreams, BodyStarts, BodyEnds, BodyDropped, RelayCloses,
        BodyNeverStarts, OperatorUpdates, vars
<1>3. QED
  BY <1>1, <1>2, TypeCorrect, PTL DEF Spec

(* Slots are counted, and every admission obeys the limit in force (OPS-010).*)
THEOREM LimitsAlwaysHold == Spec => LimitsHold
BY TypeCorrect, SlotsCounted, AdmissionsObey, PTL DEF LimitsHold

-----------------------------------------------------------------------------
(* Folds over a sequence.                                                    *)

(* One round of a fold over the first n bills that adds up the amounts v of  *)
(* the bills for which c holds, as the community modules write it.           *)
Round(c, v, n, f) ==
  [s \in SUBSET (1..n) |->
     IF s = {} THEN 0
     ELSE IF c[Max(s)] THEN f[s \ {Max(s)}] + v[Max(s)] ELSE f[s \ {Max(s)}]]

IsTally(c, v, n, f) == f = Round(c, v, n, f)

(* A fold over one bill more is the fold over the others, and that bill.     *)
Extended(c, v, n, f) ==
  [s \in SUBSET (1..(n + 1)) |->
     IF n + 1 \in s
     THEN IF c[n + 1] THEN f[s \ {n + 1}] + v[n + 1] ELSE f[s \ {n + 1}]
     ELSE f[s]]

LEMMA TallyGrows ==
  ASSUME NEW n \in Nat, NEW c, NEW v, NEW f, IsTally(c, v, n, f)
  PROVE  IsTally(c, v, n + 1, Extended(c, v, n, f))
<1> DEFINE g == Extended(c, v, n, f)
<1>1. ASSUME NEW s \in SUBSET (1..(n + 1))
      PROVE  g[s] = IF s = {} THEN 0
                    ELSE IF c[Max(s)] THEN g[s \ {Max(s)}] + v[Max(s)] ELSE g[s \ {Max(s)}]
  <2>1. CASE n + 1 \in s
    <3>1. Max(s) = n + 1 /\ s \ {n + 1} \in SUBSET (1..n)
      BY <2>1, LastIsGreatest
    <3>2. g[s \ {n + 1}] = f[s \ {n + 1}]
      BY <3>1 DEF Extended
    <3>3. g[s] = IF c[n + 1] THEN f[s \ {n + 1}] + v[n + 1] ELSE f[s \ {n + 1}]
      BY <2>1 DEF Extended
    <3>4. QED
      BY <2>1, <3>1, <3>2, <3>3
  <2>2. CASE n + 1 \notin s
    <3>1. s \in SUBSET (1..n)
      BY <2>2
    <3>2. g[s] = f[s]
      BY <2>2 DEF Extended
    <3>3. f[s] = Round(c, v, n, f)[s]
      BY DEF IsTally
    <3>4. CASE s = {}
      BY <3>1, <3>2, <3>3, <3>4 DEF Round
    <3>5. CASE s # {}
      <4>1. Max(s) \in s
        BY <3>1, <3>5, Greatest
      <4>2. s \ {Max(s)} \in SUBSET (1..n)
        BY <3>1
      <4>3. g[s \ {Max(s)}] = f[s \ {Max(s)}]
        BY <4>2 DEF Extended
      <4>4. QED
        BY <3>1, <3>2, <3>3, <3>5, <4>3 DEF Round
    <3>6. QED
      BY <3>4, <3>5
  <2>3. QED
    BY <2>1, <2>2
<1> DEFINE D == SUBSET (1..(n + 1))
           R == Round(c, v, n + 1, g)
<1>2. g = [s \in D |-> g[s]]
  BY DEF Extended
<1>3. R = [s \in D |-> R[s]]
  BY DEF Round
<1>4. \A s \in D : R[s] = IF s = {} THEN 0
                      ELSE IF c[Max(s)] THEN g[s \ {Max(s)}] + v[Max(s)] ELSE g[s \ {Max(s)}]
  BY DEF Round
<1>5. \A s \in D : g[s] = R[s]
  BY <1>1, <1>4
<1>6. g = R
  <2> HIDE DEF g, R, D
  <2>1. QED
    BY <1>2, <1>3, <1>5
<1>7. QED
  BY <1>6 DEF IsTally

(* There is such a fold, and what it is for the first bills depends on them  *)
(* only.                                                                     *)
LEMMA TallyExists ==
  ASSUME NEW n \in Nat, NEW c, NEW v
  PROVE  \E f : IsTally(c, v, n, f)
<1> DEFINE S == {m \in Nat : \E f : IsTally(c, v, m, f)}
<1>1. 0 \in S
  <2>1. IsTally(c, v, 0, [s \in {{}} |-> 0])
    BY DEF IsTally, Round
  <2>2. QED
    BY <2>1
<1>2. ASSUME NEW m \in Nat, m \in S PROVE m + 1 \in S
  BY <1>2, TallyGrows
<1>3. QED
  <2> HIDE DEF S
  <2>1. n \in S
    BY <1>1, <1>2, SetInduction
  <2>2. QED
    BY <2>1 DEF S

LEMMA TallyUnique ==
  ASSUME NEW n \in Nat, NEW c, NEW v, NEW d, NEW w, NEW f, NEW g, NEW k \in Nat, n <= k,
         \A i \in 1..n : c[i] = d[i] /\ v[i] = w[i],
         IsTally(c, v, n, f), IsTally(d, w, k, g)
  PROVE  \A s \in SUBSET (1..n) : f[s] = g[s]
<1> DEFINE S == {m \in Nat : m <= n => \A s \in SUBSET (1..m) : f[s] = g[s]}
<1>0. /\ \A s \in SUBSET (1..n) : f[s] = Round(c, v, n, f)[s]
      /\ \A s \in SUBSET (1..k) : g[s] = Round(d, w, k, g)[s]
  BY DEF IsTally
<1>1. 0 \in S
  <2>1. f[{}] = 0 /\ g[{}] = 0
    BY <1>0 DEF Round
  <2>2. \A s \in SUBSET (1..0) : s = {}
    OBVIOUS
  <2>3. QED
    BY <2>1, <2>2
<1>2. ASSUME NEW m \in Nat, m \in S PROVE m + 1 \in S
  <2>0. m + 1 <= n => \A s \in SUBSET (1..m) : f[s] = g[s]
    BY <1>2
  <2> SUFFICES ASSUME m + 1 <= n, NEW s \in SUBSET (1..(m + 1))
               PROVE  f[s] = g[s]
    BY <1>2
  <2>1. CASE m + 1 \in s
    <3>1. Max(s) = m + 1 /\ s \ {m + 1} \in SUBSET (1..m)
      BY <2>1, LastIsGreatest
    <3>2. f[s \ {m + 1}] = g[s \ {m + 1}]
      BY <3>1, <2>0
    <3>3. s \in SUBSET (1..n) /\ s \in SUBSET (1..k) /\ s # {}
      BY <2>1
    <3>4. /\ f[s] = IF c[m + 1] THEN f[s \ {m + 1}] + v[m + 1] ELSE f[s \ {m + 1}]
          /\ g[s] = IF d[m + 1] THEN g[s \ {m + 1}] + w[m + 1] ELSE g[s \ {m + 1}]
      BY <1>0, <3>1, <3>3 DEF Round
    <3>5. c[m + 1] = d[m + 1] /\ v[m + 1] = w[m + 1]
      OBVIOUS
    <3>6. QED
      BY <3>2, <3>4, <3>5
  <2>2. CASE m + 1 \notin s
    <3>1. s \in SUBSET (1..m)
      BY <2>2
    <3>2. QED
      BY <3>1, <2>0
  <2>3. QED
    BY <2>1, <2>2
<1>3. n \in S
  <2> HIDE DEF S
  <2>1. QED
    BY <1>1, <1>2, SetInduction
<1>4. QED
  BY <1>3

Tally(c, v, n) == (CHOOSE f : IsTally(c, v, n, f))[1..n]

LEMMA TallyOfNone ==
  ASSUME NEW c, NEW v
  PROVE  Tally(c, v, 0) = 0
<1> DEFINE f == CHOOSE f_1 : IsTally(c, v, 0, f_1)
<1>1. IsTally(c, v, 0, f)
  BY TallyExists
<1> HIDE DEF f
<1>2. f[{}] = 0 /\ 1..0 = {}
  BY <1>1 DEF IsTally, Round
<1>3. QED
  BY <1>2 DEF Tally, f

LEMMA TallyOfOneMore ==
  ASSUME NEW n \in Nat, NEW c, NEW v, NEW d, NEW w,
         \A i \in 1..n : c[i] = d[i] /\ v[i] = w[i]
  PROVE  Tally(d, w, n + 1) = IF d[n + 1] THEN Tally(c, v, n) + w[n + 1] ELSE Tally(c, v, n)
<1> DEFINE f == CHOOSE f_1 : IsTally(c, v, n, f_1)
           g == CHOOSE g_1 : IsTally(d, w, n + 1, g_1)
<1>1. IsTally(c, v, n, f)
  BY TallyExists
<1>2. IsTally(d, w, n + 1, g)
  BY TallyExists
<1> HIDE DEF f, g
<1>3. g[1..n] = f[1..n]
  BY <1>1, <1>2, TallyUnique
<1>4. Max(1..(n + 1)) = n + 1 /\ (1..(n + 1)) \ {n + 1} = 1..n
  BY LastIsGreatest
<1>5. g[1..(n + 1)] = IF d[n + 1] THEN g[1..n] + w[n + 1] ELSE g[1..n]
  <2>1. g[1..(n + 1)] = Round(d, w, n + 1, g)[1..(n + 1)]
    BY <1>2 DEF IsTally
  <2>2. 1..(n + 1) \in SUBSET (1..(n + 1)) /\ 1..(n + 1) # {}
    BY OneMore
  <2>3. QED
    BY <1>4, <2>1, <2>2 DEF Round
<1>6. QED
  BY <1>3, <1>5 DEF Tally, f, g

-----------------------------------------------------------------------------
(* The sums of the transactions table.                                       *)

CostSum(bills, a) ==
  FoldLeft(LAMBDA sum, b : IF b.consumer = a THEN sum + b.cost ELSE sum, 0, bills)

EarningSum(bills, a) ==
  FoldLeft(LAMBDA sum, b : IF b.provider = a THEN sum + b.earning ELSE sum, 0, bills)

Charges(bills, a) == [i \in DOMAIN bills |-> bills[i].consumer = a]
CostColumn(bills) == [i \in DOMAIN bills |-> bills[i].cost]
Credits(bills, a) == [i \in DOMAIN bills |-> bills[i].provider = a]
EarningColumn(bills) == [i \in DOMAIN bills |-> bills[i].earning]

(* What the folds of CostsOf and EarningsOf compute.                         *)
LEMMA SumsAreTallies ==
  ASSUME NEW bills \in Seq(Bill), NEW a
  PROVE  /\ CostSum(bills, a) = Tally(Charges(bills, a), CostColumn(bills), Len(bills))
         /\ EarningSum(bills, a) =
              Tally(Credits(bills, a), EarningColumn(bills), Len(bills))
<1> DEFINE n == Len(bills)
           Costs(f) == [s \in SUBSET (1..n) |->
             IF s = {} THEN 0
             ELSE IF bills[Max(s)].consumer = a
                  THEN f[s \ {Max(s)}] + bills[Max(s)].cost ELSE f[s \ {Max(s)}]]
           Earnings(f) == [s \in SUBSET (1..n) |->
             IF s = {} THEN 0
             ELSE IF bills[Max(s)].provider = a
                  THEN f[s \ {Max(s)}] + bills[Max(s)].earning ELSE f[s \ {Max(s)}]]
<1>1. DOMAIN bills = 1..n /\ n \in Nat
  OBVIOUS
<1>2. \A s \in SUBSET (1..n) : s # {} => Max(s) \in 1..n
  BY <1>1, Greatest
<1>3. ASSUME NEW f PROVE Round(Charges(bills, a), CostColumn(bills), n, f) = Costs(f)
  <2>1. \A i \in 1..n : /\ Charges(bills, a)[i] = (bills[i].consumer = a)
                        /\ CostColumn(bills)[i] = bills[i].cost
    BY <1>1 DEF Charges, CostColumn
  <2>2. QED
    BY <1>2, <2>1 DEF Round
<1>4. ASSUME NEW f PROVE Round(Credits(bills, a), EarningColumn(bills), n, f) = Earnings(f)
  <2>1. \A i \in 1..n : /\ Credits(bills, a)[i] = (bills[i].provider = a)
                        /\ EarningColumn(bills)[i] = bills[i].earning
    BY <1>1 DEF Credits, EarningColumn
  <2>2. QED
    BY <1>2, <2>1 DEF Round
<1>5. CostSum(bills, a) = (CHOOSE f : f = Costs(f))[1..n]
  BY <1>1 DEF CostSum, FoldLeft, MapThenFoldSet
<1>6. EarningSum(bills, a) = (CHOOSE f : f = Earnings(f))[1..n]
  BY <1>1 DEF EarningSum, FoldLeft, MapThenFoldSet
<1> HIDE DEF Costs, Earnings
<1>7. CostSum(bills, a) = Tally(Charges(bills, a), CostColumn(bills), n)
  <2>1. \A f : IsTally(Charges(bills, a), CostColumn(bills), n, f) <=> f = Costs(f)
    BY <1>3 DEF IsTally
  <2>2. QED
    BY <1>5, <2>1 DEF Tally
<1>8. EarningSum(bills, a) = Tally(Credits(bills, a), EarningColumn(bills), n)
  <2>1. \A f : IsTally(Credits(bills, a), EarningColumn(bills), n, f) <=> f = Earnings(f)
    BY <1>4 DEF IsTally
  <2>2. QED
    BY <1>6, <2>1 DEF Tally
<1>9. QED
  BY <1>7, <1>8

(* An empty table sums up to nothing, and a bill adds what it says.          *)
LEMMA SumsOfNone ==
  ASSUME NEW a
  PROVE  CostSum(<<>>, a) = 0 /\ EarningSum(<<>>, a) = 0
<1>1. <<>> \in Seq(Bill) /\ Len(<<>>) = 0
  OBVIOUS
<1>2. QED
  BY <1>1, SumsAreTallies, TallyOfNone

LEMMA SumsOfOneMore ==
  ASSUME NEW bills \in Seq(Bill), NEW bill \in Bill, NEW a
  PROVE  /\ CostSum(Append(bills, bill), a) =
              IF bill.consumer = a THEN CostSum(bills, a) + bill.cost ELSE CostSum(bills, a)
         /\ EarningSum(Append(bills, bill), a) =
              IF bill.provider = a THEN EarningSum(bills, a) + bill.earning
              ELSE EarningSum(bills, a)
<1> DEFINE more == Append(bills, bill)
           n == Len(bills)
<1>1. /\ more \in Seq(Bill) /\ n \in Nat /\ Len(more) = n + 1
      /\ DOMAIN bills = 1..n /\ DOMAIN more = 1..(n + 1)
      /\ more[n + 1] = bill /\ \A i \in 1..n : more[i] = bills[i]
  OBVIOUS
<1> HIDE DEF more, n
<1> DEFINE c == Charges(bills, a)
           v == CostColumn(bills)
           d == Charges(more, a)
           w == CostColumn(more)
<1>2. /\ \A i \in 1..n : c[i] = d[i] /\ v[i] = w[i]
      /\ d[n + 1] = (bill.consumer = a) /\ w[n + 1] = bill.cost
  BY <1>1 DEF Charges, CostColumn
<1>3. Tally(d, w, n + 1) =
        IF bill.consumer = a THEN Tally(c, v, n) + bill.cost ELSE Tally(c, v, n)
  <2> HIDE DEF c, v, d, w
  <2>1. Tally(d, w, n + 1) = IF d[n + 1] THEN Tally(c, v, n) + w[n + 1] ELSE Tally(c, v, n)
    BY <1>1, <1>2, TallyOfOneMore
  <2>2. QED
    BY <1>2, <2>1
<1> DEFINE e == Credits(bills, a)
           x == EarningColumn(bills)
           f == Credits(more, a)
           y == EarningColumn(more)
<1>4. /\ \A i \in 1..n : e[i] = f[i] /\ x[i] = y[i]
      /\ f[n + 1] = (bill.provider = a) /\ y[n + 1] = bill.earning
  BY <1>1 DEF Credits, EarningColumn
<1>5. Tally(f, y, n + 1) =
        IF bill.provider = a THEN Tally(e, x, n) + bill.earning ELSE Tally(e, x, n)
  <2> HIDE DEF e, x, f, y
  <2>1. Tally(f, y, n + 1) = IF f[n + 1] THEN Tally(e, x, n) + y[n + 1] ELSE Tally(e, x, n)
    BY <1>1, <1>4, TallyOfOneMore
  <2>2. QED
    BY <1>4, <2>1
<1>6. QED
  BY <1>1, <1>3, <1>5, SumsAreTallies DEF more, n

LEMMA SumsNow ==
  ASSUME NEW a
  PROVE  /\ CostsOf(a) = CostSum(transactions, a)
         /\ EarningsOf(a) = EarningSum(transactions, a)
         /\ CostsOf(a)' = CostSum(transactions', a)
         /\ EarningsOf(a)' = EarningSum(transactions', a)
BY DEF CostsOf, EarningsOf, CostSum, EarningSum, FoldLeft, MapThenFoldSet

-----------------------------------------------------------------------------
(* The steps of the transactions table.                                      *)

(* A bill of c to v is one more cost of c and one more earning of v.         *)
LEMMA BillAddsUp ==
  ASSUME TypeOK, NEW c \in Accounts, NEW v \in Accounts \ {c}, NEW raw \in RawCosts,
         row[v] = "present", ChargeRequest(c, v, raw), NEW a \in Accounts
  PROVE  LET cost == TotalCost(raw)
             earning == ProviderEarning(cost)
         IN  /\ row' = row
             /\ spent'[a] = IF a = c /\ row[c] = "present" THEN spent[a] + cost ELSE spent[a]
             /\ earned'[a] = IF a = v THEN earned[a] + earning ELSE earned[a]
             /\ CostsOf(a)' = IF a = c THEN CostsOf(a) + cost ELSE CostsOf(a)
             /\ EarningsOf(a)' = IF a = v THEN EarningsOf(a) + earning ELSE EarningsOf(a)
<1> DEFINE cost == TotalCost(raw)
           earning == ProviderEarning(cost)
           bill == [consumer |-> c, provider |-> v, cost |-> cost,
                    earning |-> earning, fee |-> PlatformFee(cost)]
<1>1. cost \in Nat /\ earning \in Nat /\ PlatformFee(cost) \in Nat
  BY Prices
<1>2. /\ row' = [row EXCEPT ![v] = "present"]
      /\ spent' = IF row[c] = "present" THEN [spent EXCEPT ![c] = spent[c] + cost] ELSE spent
      /\ earned' = [earned EXCEPT ![v] = earned[v] + earning]
      /\ transactions' = Append(transactions, bill)
  BY DEF ChargeRequest, Opened, Updated, Zeroed
<1>3. bill \in Bill /\ transactions \in Seq(Bill)
  BY <1>1 DEF Bill, TypeOK, LedgerTypeOK
<1>4. bill.consumer = c /\ bill.provider = v /\ bill.cost = cost /\ bill.earning = earning
  OBVIOUS
<1> HIDE DEF cost, earning, bill
<1>5. /\ CostsOf(a)' = IF c = a THEN CostsOf(a) + cost ELSE CostsOf(a)
      /\ EarningsOf(a)' = IF v = a THEN EarningsOf(a) + earning ELSE EarningsOf(a)
  BY <1>2, <1>3, <1>4, SumsOfOneMore, SumsNow
<1>6. row' = row
  BY <1>2 DEF TypeOK, LedgerTypeOK
<1>7. spent'[a] = IF a = c /\ row[c] = "present" THEN spent[a] + cost ELSE spent[a]
  BY <1>2 DEF TypeOK, LedgerTypeOK
<1>8. earned'[a] = IF a = v THEN earned[a] + earning ELSE earned[a]
  BY <1>2 DEF TypeOK, LedgerTypeOK
<1>9. QED
  BY <1>5, <1>6, <1>7, <1>8 DEF cost, earning

(* A charge keeps the accounts that exist in agreement with their bills.     *)
LEMMA ReconcileCharge ==
  ASSUME TypeOK, ReconcileIInv, NEW r \in Requests, NEW v \in Providers,
         NEW raw \in RawCosts, Settle(r, v, raw)
  PROVE  ReconcileIInv'
<1> DEFINE c == Payer[r]
           cost == TotalCost(raw)
           earning == ProviderEarning(cost)
<1>1. c \in Accounts /\ v \in Accounts \ {c}
  BY PayerType, SpendingAssumption
<1>2. /\ row[v] = "present" /\ ChargeRequest(c, v, raw) /\ stage' = stage
      /\ stage[r] # "new"
  BY DEF Settle, Chargeable, Holding, Started
<1>3. row[c] # "absent"
  BY <1>2 DEF ReconcileIInv, SendersWereOpened
<1>4. ASSUME NEW a \in Accounts
      PROVE  /\ row'[a] = row[a]
             /\ spent'[a] = IF a = c /\ row[c] = "present" THEN spent[a] + cost ELSE spent[a]
             /\ earned'[a] = IF a = v THEN earned[a] + earning ELSE earned[a]
             /\ CostsOf(a)' = IF a = c THEN CostsOf(a) + cost ELSE CostsOf(a)
             /\ EarningsOf(a)' = IF a = v THEN EarningsOf(a) + earning ELSE EarningsOf(a)
  <2> HIDE DEF c
  <2>1. QED
    BY <1>1, <1>2, BillAddsUp
<1> HIDE DEF c, cost, earning
<1>5. AccountsReconcile'
  BY <1>4 DEF ReconcileIInv, AccountsReconcile
<1>6. UnopenedHaveNoBills'
  BY <1>2, <1>3, <1>4 DEF ReconcileIInv, UnopenedHaveNoBills
<1>7. ProvidersStay' /\ SendersWereOpened'
  BY <1>2, <1>4, SpendingAssumption DEF ReconcileIInv, ProvidersStay, SendersWereOpened
<1>8. QED
  BY <1>5, <1>6, <1>7 DEF ReconcileIInv

(* Opening an account starts its totals where its bills stand: at nothing.   *)
LEMMA ReconcileAccount ==
  ASSUME TypeOK, ReconcileIInv, NEW x \in Accounts, AccountStep(x)
  PROVE  ReconcileIInv'
<1>1. stage' = stage /\ transactions' = transactions
  BY DEF AccountStep, SignUp, ProviderConnects, DeleteUser, ResetBalance, CreateAccount,
         EnsureAccount, DeleteAccount, ResetDevBalance, requestVars
<1>2. \A a \in Accounts : CostsOf(a)' = CostsOf(a) /\ EarningsOf(a)' = EarningsOf(a)
  BY <1>1, SumsNow
<1>3. CASE SignUp(x) \/ ProviderConnects(x)
  <2>1. EnsureAccount(x) /\ row[x] = "absent"
    BY <1>3 DEF SignUp, ProviderConnects, CreateAccount, ReconcileIInv, ProvidersStay,
                TypeOK, LedgerTypeOK
  <2>2. /\ row' = [row EXCEPT ![x] = "present"]
        /\ spent' = [spent EXCEPT ![x] = 0] /\ earned' = [earned EXCEPT ![x] = 0]
    BY <2>1 DEF EnsureAccount, Opened, Zeroed
  <2>3. ASSUME NEW a \in Accounts
        PROVE  /\ row'[a] = IF a = x THEN "present" ELSE row[a]
               /\ spent'[a] = IF a = x THEN 0 ELSE spent[a]
               /\ earned'[a] = IF a = x THEN 0 ELSE earned[a]
    BY <2>2 DEF TypeOK, LedgerTypeOK
  <2>4. AccountsReconcile'
    BY <1>2, <2>1, <2>3 DEF ReconcileIInv, AccountsReconcile, UnopenedHaveNoBills
  <2>5. UnopenedHaveNoBills'
    BY <1>2, <2>3 DEF ReconcileIInv, UnopenedHaveNoBills
  <2>6. ProvidersStay' /\ SendersWereOpened'
    BY <1>1, <2>3, PayerType, SpendingAssumption
    DEF ReconcileIInv, ProvidersStay, SendersWereOpened
  <2>7. QED
    BY <2>4, <2>5, <2>6 DEF ReconcileIInv
<1>4. CASE DeleteUser(x) \/ ResetBalance(x)
  <2>1. /\ x \notin Providers /\ row[x] = "present"
        /\ \A a \in Accounts :
             \/ row'[a] = row[a] /\ spent'[a] = spent[a] /\ earned'[a] = earned[a]
             \/ a = x /\ row'[a] = "deleted"
    BY <1>4 DEF DeleteUser, DeleteAccount, ResetBalance, ResetDevBalance, TypeOK, LedgerTypeOK
  <2>2. AccountsReconcile' /\ UnopenedHaveNoBills'
    BY <1>2, <2>1 DEF ReconcileIInv, AccountsReconcile, UnopenedHaveNoBills
  <2>3. ProvidersStay' /\ SendersWereOpened'
    BY <1>1, <2>1, PayerType, SpendingAssumption
    DEF ReconcileIInv, ProvidersStay, SendersWereOpened
  <2>4. QED
    BY <2>2, <2>3 DEF ReconcileIInv
<1>5. QED
  BY <1>3, <1>4 DEF AccountStep

(* BILL-011: the totals on an account that exists are the sums of its bills, *)
(* for every number of bills and every order of charges, sign-ups and        *)
(* deletions: an account that is deleted while a request is in flight is not *)
(* opened again, and a charge to it moves no total.                          *)
THEOREM AccountsReconciled == Spec => []AccountsReconcile
<1>1. Init => ReconcileIInv
  <2> SUFFICES ASSUME Init PROVE ReconcileIInv
    OBVIOUS
  <2>1. \A a \in Accounts : CostsOf(a) = 0 /\ EarningsOf(a) = 0
    BY SumsNow, SumsOfNone DEF Init, LedgerInit
  <2>2. \A a \in Accounts : row[a] = "absent"
    BY DEF Init, LedgerInit
  <2>3. \A r \in Requests : stage[r] = "new"
    BY DEF Init
  <2>4. QED
    BY <2>1, <2>2, <2>3, SpendingAssumption
    DEF ReconcileIInv, AccountsReconcile, UnopenedHaveNoBills, ProvidersStay,
        SendersWereOpened
<1>2. ASSUME TypeOK, ReconcileIInv, [Next]_vars PROVE ReconcileIInv'
  <2>1. ASSUME UNCHANGED ledgerVars,
               \A r \in Requests : stage'[r] # "new" =>
                 stage[r] # "new" \/ row[Payer[r]] # "absent"
        PROVE  ReconcileIInv'
    <3>1. \A a \in Accounts : CostsOf(a)' = CostsOf(a) /\ EarningsOf(a)' = EarningsOf(a)
      BY <2>1, SumsNow DEF ledgerVars
    <3>2. AccountsReconcile' /\ UnopenedHaveNoBills'
      BY <1>2, <2>1, <3>1 DEF ReconcileIInv, AccountsReconcile, UnopenedHaveNoBills, ledgerVars
    <3>3. ProvidersStay' /\ SendersWereOpened'
      BY <1>2, <2>1 DEF ReconcileIInv, ProvidersStay, SendersWereOpened, ledgerVars
    <3>4. QED
      BY <3>2, <3>3 DEF ReconcileIInv
  <2>2. ASSUME NEW r \in Requests, RequestStep(r) PROVE ReconcileIInv'
    <3>1. CASE \E v \in Providers, raw \in RawCosts : Settle(r, v, raw)
      BY <1>2, <3>1, ReconcileCharge
    <3>2. CASE RefuseByControls(r) \/ RefuseUnfunded(r) \/ Admit(r)
      <4>1. /\ UNCHANGED ledgerVars /\ row[Payer[r]] = "present"
            /\ \A q \in Requests : q # r => stage'[q] = stage[q]
        BY <1>2, <3>2 DEF RefuseByControls, RefuseUnfunded, Admit, Refused, Arrives, TypeOK
      <4>2. QED
        BY <2>1, <4>1
    <3>3. CASE \/ HandlerEnds(r) \/ HandlerStreams(r) \/ BodyStarts(r) \/ BodyEnds(r)
               \/ BodyDropped(r) \/ RelayCloses(r) \/ BodyNeverStarts(r)
      <4>1. /\ UNCHANGED ledgerVars /\ stage[r] # "new"
            /\ \A q \in Requests : q # r => stage'[q] = stage[q]
        BY <1>2, <3>3 DEF HandlerEnds, HandlerStreams, BodyStarts, BodyEnds, BodyDropped,
                          RelayCloses, BodyNeverStarts, TypeOK
      <4>2. QED
        BY <2>1, <4>1
    <3>4. QED
      BY <2>2, <3>1, <3>2, <3>3 DEF RequestStep
  <2>3. CASE OperatorUpdates \/ UNCHANGED vars
    BY <2>1, <2>3 DEF OperatorUpdates, vars, requestVars
  <2>4. QED
    BY <1>2, <2>2, <2>3, ReconcileAccount DEF Next
<1>3. ReconcileIInv => AccountsReconcile
  BY DEF ReconcileIInv
<1>4. QED
  BY <1>1, <1>2, <1>3, TypeCorrect, PTL DEF Spec

-----------------------------------------------------------------------------
(* CountryActivity                                                          *)

\* The requests among all that were counted on day x for route r
Those(all, x, r) == {k \in all : k[1] = x /\ k[3] = r}

\* A counter of day x and route r says no more than there was.
IsCounter(c, all, x, r) ==
    /\ c.count \in Nat /\ IsFiniteSet(c.consumers) /\ Cardinality(c.consumers) <= MinConsumers
    /\ c.count <= Cardinality({k[2] : k \in Those(all, x, r)})
    /\ c.consumers \subseteq {k[4] : k \in Those(all, x, r)}

IsDay(d, all, x) ==
    /\ IsFiniteSet(d.seen) /\ Cardinality(d.seen) <= MaxCompletions
    /\ IsFiniteSet(DOMAIN d.routes) /\ Cardinality(DOMAIN d.routes) <= MaxRoutes
    /\ \A r \in DOMAIN d.routes : IsCounter(d.routes[r], all, x, r)

\* The days hold what was counted on them, today's and yesterday's all.
ActivityIInv ==
    /\ today \in 0..MaxDay /\ DOMAIN days \subseteq 0..today
    /\ \A x \in DOMAIN days : IsDay(days[x], counted, x)
    /\ IsFiniteSet(counted)
    /\ \A k \in counted : k[1] \in 0..today
    /\ \A k \in counted : k[1] \in {today - 1, today} =>
                             k[1] \in DOMAIN days /\ k[2] \in days[k[1]].seen
    /\ NothingCountsTwice

LEMMA ActivityLimits ==
  /\ MaxDay \in Nat /\ MinRequests \in Nat \ {0} /\ MinConsumers \in Nat \ {0}
  /\ MaxCompletions \in Nat \ {0} /\ MaxRoutes \in Nat \ {0}
BY CountryActivityAssumption

LEMMA PrunedDays ==
  ASSUME ActivityIInv
  PROVE  /\ DOMAIN Pruned(days) \subseteq DOMAIN days
         /\ \A x \in {today - 1, today} : x \in DOMAIN days => x \in DOMAIN Pruned(days)
         /\ \A x \in DOMAIN Pruned(days) : x \in {today - 1, today} /\ Pruned(days)[x] = days[x]
         /\ DayOf(Pruned(days), today - 1) = DayOf(days, today - 1)
         /\ DayOf(Pruned(days), today) = DayOf(days, today)
<1>1. Pruned(days) = [x \in DOMAIN days \cap {today - 1, today} |-> days[x]]
  BY DEF Pruned
<1>2. QED
  BY <1>1 DEF DayOf

LEMMA ImageSize ==
  ASSUME NEW S, IsFiniteSet(S), NEW f, DOMAIN f = S
  PROVE  IsFiniteSet({f[k] : k \in S})
<1> DEFINE B == {f[k] : k \in S}
           g == [k \in S |-> f[k]]
<1>1. g \in Surjection(S, B)
  BY DEF Surjection
<1> HIDE DEF g, B
<1>2. QED
  BY <1>1, FS_Surjection DEF B

\* Ids and consumers of finitely many requests are finitely many.
LEMMA FewIds ==
  ASSUME NEW all, IsFiniteSet(all), NEW x, NEW r
  PROVE  /\ IsFiniteSet({k[2] : k \in Those(all, x, r)})
         /\ IsFiniteSet({k[4] : k \in Those(all, x, r)})
<1> DEFINE those == Those(all, x, r)
           f == [k \in those |-> k[2]]
           g == [k \in those |-> k[4]]
<1>1. IsFiniteSet(those)
  BY FS_Subset DEF Those
<1> HIDE DEF those
<1>2. {f[k] : k \in those} = {k[2] : k \in those} /\ {g[k] : k \in those} = {k[4] : k \in those}
  OBVIOUS
<1>3. DOMAIN f = those /\ DOMAIN g = those
  OBVIOUS
<1> HIDE DEF f, g
<1>4. IsFiniteSet({f[k] : k \in those}) /\ IsFiniteSet({g[k] : k \in those})
  BY <1>1, <1>3, ImageSize
<1>5. QED
  BY <1>2, <1>4 DEF those

\* Counting more never makes a counter say too much.
LEMMA CounterStays ==
  ASSUME NEW all, NEW more, IsFiniteSet(more), all \subseteq more, NEW x, NEW r, NEW c,
         IsCounter(c, all, x, r)
  PROVE  IsCounter(c, more, x, r)
<1> DEFINE A == {k[2] : k \in Those(all, x, r)}
           B == {k[2] : k \in Those(more, x, r)}
<1>1. Those(all, x, r) \subseteq Those(more, x, r)
  BY DEF Those
<1>2. A \subseteq B
  BY <1>1
<1>3. IsFiniteSet(B)
  BY FewIds
<1>4. c.count \in Nat /\ c.count <= Cardinality(A) /\ c.consumers \subseteq {k[4] : k \in Those(all, x, r)}
  BY DEF IsCounter
<1>5. c.consumers \subseteq {k[4] : k \in Those(more, x, r)}
  BY <1>1, <1>4
<1> HIDE DEF A, B
<1>6. Cardinality(A) <= Cardinality(B) /\ Cardinality(A) \in Nat /\ Cardinality(B) \in Nat
  BY <1>2, <1>3, FS_Subset, FS_CardinalityType
<1>7. c.count <= Cardinality(B)
  BY <1>4, <1>6
<1>8. QED
  BY <1>5, <1>7 DEF B, IsCounter

LEMMA DayStays ==
  ASSUME NEW all, NEW more, IsFiniteSet(more), all \subseteq more, NEW x, NEW d, IsDay(d, all, x)
  PROVE  IsDay(d, more, x)
BY CounterStays DEF IsDay

LEMMA EmptyDay ==
  ASSUME NEW all, NEW x
  PROVE  IsDay(Empty, all, x)
<1>1. Empty.seen = {} /\ DOMAIN Empty.routes = {}
  BY DEF Empty
<1>2. IsFiniteSet({}) /\ Cardinality({}) = 0
  BY FS_EmptySet
<1>3. QED
  BY <1>1, <1>2, ActivityLimits DEF IsDay

LEMMA DayOfIsDay ==
  ASSUME NEW all, NEW f, NEW x, \A y \in DOMAIN f : IsDay(f[y], all, y)
  PROVE  IsDay(DayOf(f, x), all, x)
BY EmptyDay DEF DayOf

\* A request that day x has not seen, when there is room for it and its route
MayCount(d, all, x, id, r) ==
    /\ id \notin d.seen /\ \A k \in all : k[1] = x => k[2] \in d.seen
    /\ Cardinality(d.seen) < MaxCompletions
    /\ r \in DOMAIN d.routes \/ Cardinality(DOMAIN d.routes) < MaxRoutes

\* It makes its counter one more, and is one more.
LEMMA CountedDay ==
  ASSUME NEW all, IsFiniteSet(all), NEW x, NEW d, IsDay(d, all, x),
         NEW id, NEW r, NEW who, MayCount(d, all, x, id, r),
         NEW more, more = all \union {<<x, id, r, who>>}
  PROVE  /\ IsDay(Counted(d, id, r, who), more, x)
         /\ Counted(d, id, r, who).seen = d.seen \union {id}
<1> DEFINE k0 == <<x, id, r, who>>
           old == IF r \in DOMAIN d.routes THEN d.routes[r] ELSE [count |-> 0, consumers |-> {}]
           met == IF Cardinality(old.consumers) < MinConsumers
                  THEN old.consumers \union {who} ELSE old.consumers
           new == [count |-> old.count + 1, consumers |-> met]
           routes == With(d.routes, r, new)
           A == {k[2] : k \in Those(all, x, r)}
           B == {k[2] : k \in Those(more, x, r)}
<1>1. Counted(d, id, r, who) = [seen |-> d.seen \union {id}, routes |-> routes]
  BY DEF Counted
<1>2. IsFiniteSet(more) /\ all \subseteq more
  BY FS_AddElement
<1>3. Those(more, x, r) = Those(all, x, r) \union {k0} /\ k0[2] = id /\ k0[4] = who
  BY DEF Those
<1>4. IsCounter(old, all, x, r)
  <2>1. CASE r \in DOMAIN d.routes
    BY <2>1 DEF IsDay
  <2>2. CASE r \notin DOMAIN d.routes
    <3>1. old.count = 0 /\ old.consumers = {}
      BY <2>2
    <3> HIDE DEF old
    <3>2. IsFiniteSet({}) /\ Cardinality({}) = 0
      BY FS_EmptySet
    <3>3. IsFiniteSet(A)
      BY FewIds
    <3> HIDE DEF A
    <3>4. 0 <= Cardinality(A)
      BY <3>3, FS_CardinalityType
    <3>5. QED
      BY <3>1, <3>2, <3>4, ActivityLimits DEF IsCounter, A
  <2>3. QED
    BY <2>1, <2>2
<1> HIDE DEF old
<1>5. /\ old.count \in Nat /\ IsFiniteSet(old.consumers) /\ Cardinality(old.consumers) <= MinConsumers
      /\ old.count <= Cardinality(A)
      /\ old.consumers \subseteq {k[4] : k \in Those(all, x, r)}
  BY <1>4 DEF IsCounter
<1>6. B = A \union {id} /\ id \notin A
  <2>1. B = A \union {id}
    <3> HIDE DEF k0
    <3>1. QED
      BY <1>3
  <2>2. id \notin A
    BY DEF Those, MayCount
  <2>3. QED
    BY <2>1, <2>2
<1>7. IsFiniteSet(A)
  BY FewIds
<1> HIDE DEF k0, A, B
<1>8. Cardinality(B) = Cardinality(A) + 1 /\ Cardinality(A) \in Nat
  BY <1>6, <1>7, FS_AddElement, FS_CardinalityType
<1>9. IsFiniteSet(met) /\ Cardinality(met) <= MinConsumers
  <2>1. CASE Cardinality(old.consumers) < MinConsumers
    <3>1. IsFiniteSet(old.consumers \union {who})
          /\ Cardinality(old.consumers \union {who}) \in {Cardinality(old.consumers), Cardinality(old.consumers) + 1}
      BY <1>5, FS_AddElement
    <3>2. Cardinality(old.consumers) \in Nat
      BY <1>5, FS_CardinalityType
    <3>3. QED
      BY <2>1, <3>1, <3>2, ActivityLimits
  <2>2. CASE ~ (Cardinality(old.consumers) < MinConsumers)
    BY <1>5, <2>2
  <2>3. QED
    BY <2>1, <2>2
<1>10. met \subseteq {k[4] : k \in Those(more, x, r)}
  <2>1. met \subseteq old.consumers \union {who}
    OBVIOUS
  <2> HIDE DEF met
  <2>2. QED
    BY <1>3, <1>5, <2>1
<1>11. new.count = old.count + 1 /\ new.consumers = met
  OBVIOUS
<1> HIDE DEF met, new
<1>12. IsCounter(new, more, x, r)
  <2>1. new.count \in Nat /\ new.count <= Cardinality(B)
    BY <1>5, <1>8, <1>11
  <2>2. QED
    BY <1>9, <1>10, <1>11, <2>1 DEF IsCounter, B
<1>13. /\ DOMAIN routes = DOMAIN d.routes \union {r} /\ routes[r] = new
       /\ \A y \in DOMAIN d.routes : y # r => routes[y] = d.routes[y]
  BY DEF With
<1> HIDE DEF routes
<1>14. \A y \in DOMAIN routes : IsCounter(routes[y], more, x, y)
  <2> SUFFICES ASSUME NEW y \in DOMAIN routes PROVE IsCounter(routes[y], more, x, y)
    OBVIOUS
  <2>1. CASE y = r
    BY <1>12, <1>13, <2>1
  <2>2. CASE y # r
    <3>1. y \in DOMAIN d.routes /\ routes[y] = d.routes[y]
      BY <1>13, <2>2
    <3>2. IsCounter(d.routes[y], all, x, y)
      BY <3>1 DEF IsDay
    <3>3. QED
      BY <1>2, <3>1, <3>2, CounterStays
  <2>3. QED
    BY <2>1, <2>2
<1>15. IsFiniteSet(DOMAIN routes) /\ Cardinality(DOMAIN routes) <= MaxRoutes
  <2> DEFINE D == DOMAIN d.routes
  <2>1. IsFiniteSet(D) /\ Cardinality(D) <= MaxRoutes
    BY DEF IsDay
  <2>2. r \in D \/ Cardinality(D) < MaxRoutes
    BY DEF MayCount
  <2> HIDE DEF D
  <2>3. IsFiniteSet(D \union {r}) /\ Cardinality(D) \in Nat
        /\ Cardinality(D \union {r}) = IF r \in D THEN Cardinality(D) ELSE Cardinality(D) + 1
    BY <2>1, FS_AddElement, FS_CardinalityType
  <2>4. Cardinality(D \union {r}) <= MaxRoutes
    BY <2>1, <2>2, <2>3, ActivityLimits
  <2>5. QED
    BY <1>13, <2>3, <2>4 DEF D
<1>16. IsFiniteSet(d.seen \union {id}) /\ Cardinality(d.seen \union {id}) <= MaxCompletions
  <2>1. IsFiniteSet(d.seen)
    BY DEF IsDay
  <2>2. IsFiniteSet(d.seen \union {id}) /\ Cardinality(d.seen \union {id}) = Cardinality(d.seen) + 1
        /\ Cardinality(d.seen) \in Nat
    BY <2>1, FS_AddElement, FS_CardinalityType DEF MayCount
  <2>3. QED
    BY <2>2, ActivityLimits DEF MayCount
<1>17. IsDay([seen |-> d.seen \union {id}, routes |-> routes], more, x)
  BY <1>14, <1>15, <1>16 DEF IsDay
<1>18. QED
  BY <1>1, <1>17

-----------------------------------------------------------------------------
\* The invariant bounds what is kept and what is published.

LEMMA DaysAreBounded ==
  ASSUME ActivityIInv
  PROVE  ActivityTypeOK
BY DEF ActivityIInv, IsDay, IsCounter, ActivityTypeOK

LEMMA ReleasedIsMany ==
  ASSUME ActivityIInv
  PROVE  SmallCountsAreSuppressed
<1> SUFFICES ASSUME NEW r \in Released
             PROVE  LET those == {k \in counted : k[1] = today - 1 /\ k[3] = r}
                    IN  /\ Cardinality({k[2] : k \in those}) >= MinRequests
                        /\ Cardinality({k[4] : k \in those}) >= MinConsumers
  BY DEF SmallCountsAreSuppressed
<1> DEFINE y == today - 1
           d == DayOf(days, y)
           c == d.routes[r]
           A == {k[2] : k \in Those(counted, y, r)}
           B == {k[4] : k \in Those(counted, y, r)}
<1>1. r \in DOMAIN d.routes /\ c.count >= MinRequests /\ Cardinality(c.consumers) >= MinConsumers
  BY DEF Released
<1>2. IsDay(d, counted, y)
  <2>1. \A x \in DOMAIN days : IsDay(days[x], counted, x)
    BY DEF ActivityIInv
  <2> HIDE DEF y
  <2>2. QED
    BY <2>1, DayOfIsDay
<1> HIDE DEF d
<1>3. IsCounter(c, counted, y, r)
  BY <1>1, <1>2 DEF IsDay
<1> HIDE DEF c, y
<1>4. c.count \in Nat /\ c.count <= Cardinality(A) /\ c.consumers \subseteq B
  BY <1>3 DEF IsCounter
<1>5. IsFiniteSet(A) /\ IsFiniteSet(B)
  BY FewIds DEF ActivityIInv
<1> HIDE DEF A, B
<1>6. /\ Cardinality(A) \in Nat /\ Cardinality(B) \in Nat /\ IsFiniteSet(c.consumers)
      /\ Cardinality(c.consumers) <= Cardinality(B) /\ Cardinality(c.consumers) \in Nat
  BY <1>4, <1>5, FS_Subset, FS_CardinalityType
<1>7. Cardinality(A) >= MinRequests /\ Cardinality(B) >= MinConsumers
  BY <1>1, <1>4, <1>6, ActivityLimits
<1>8. QED
  BY <1>7 DEF A, B, y, Those

-----------------------------------------------------------------------------
LEMMA ActivityStarts ==
  ASSUME ActivityInit
  PROVE  ActivityIInv
<1>1. today = 0 /\ DOMAIN days = {} /\ counted = {}
  BY DEF ActivityInit
<1>2. IsFiniteSet(counted)
  BY <1>1, FS_EmptySet
<1>3. QED
  BY <1>1, <1>2, ActivityLimits DEF ActivityIInv, NothingCountsTwice

LEMMA ExpireKeeps ==
  ASSUME ActivityIInv, Expire
  PROVE  ActivityIInv'
<1>1. days' = Pruned(days) /\ today' = today /\ counted' = counted
  BY DEF Expire
<1>2. /\ today \in 0..MaxDay /\ DOMAIN days \subseteq 0..today
      /\ \A x \in DOMAIN days : IsDay(days[x], counted, x)
      /\ IsFiniteSet(counted)
      /\ \A k \in counted : k[1] \in 0..today
      /\ \A k \in counted : k[1] \in {today - 1, today} =>
                               k[1] \in DOMAIN days /\ k[2] \in days[k[1]].seen
      /\ NothingCountsTwice
  BY DEF ActivityIInv
<1> DEFINE kept == Pruned(days)
<1>3. /\ DOMAIN kept \subseteq DOMAIN days
      /\ \A x \in {today - 1, today} : x \in DOMAIN days => x \in DOMAIN kept
      /\ \A x \in DOMAIN kept : x \in {today - 1, today} /\ kept[x] = days[x]
  BY PrunedDays
<1> HIDE DEF kept
<1>4. /\ DOMAIN kept \subseteq 0..today
      /\ \A x \in DOMAIN kept : IsDay(kept[x], counted, x)
      /\ \A k \in counted : k[1] \in {today - 1, today} =>
                               k[1] \in DOMAIN kept /\ k[2] \in kept[k[1]].seen
  BY <1>2, <1>3
<1>5. NothingCountsTwice'
  BY <1>1, <1>2 DEF NothingCountsTwice
<1>6. days' = kept
  BY <1>1 DEF kept
<1>7. QED
  BY <1>1, <1>2, <1>4, <1>5, <1>6 DEF ActivityIInv

LEMMA NewDayKeeps ==
  ASSUME ActivityIInv, NewDay
  PROVE  ActivityIInv'
<1>1. today < MaxDay /\ today' = today + 1 /\ days' = days /\ counted' = counted
  BY DEF NewDay
<1>2. /\ today \in 0..MaxDay /\ DOMAIN days \subseteq 0..today
      /\ \A x \in DOMAIN days : IsDay(days[x], counted, x)
      /\ IsFiniteSet(counted)
      /\ \A k \in counted : k[1] \in 0..today
      /\ \A k \in counted : k[1] \in {today - 1, today} =>
                               k[1] \in DOMAIN days /\ k[2] \in days[k[1]].seen
      /\ NothingCountsTwice
  BY DEF ActivityIInv
<1>3. today + 1 \in 0..MaxDay /\ 0..today \subseteq 0..(today + 1)
  BY <1>1, <1>2, ActivityLimits
<1>4. \A k \in counted : k[1] \in {today + 1 - 1, today + 1} => k[1] \in {today - 1, today}
  BY <1>2
<1>5. NothingCountsTwice'
  BY <1>1, <1>2 DEF NothingCountsTwice
<1>6. QED
  BY <1>1, <1>2, <1>3, <1>4, <1>5 DEF ActivityIInv

LEMMA RestartKeeps ==
  ASSUME ActivityIInv, RestartActivity
  PROVE  ActivityIInv'
<1>1. days' = <<>> /\ counted' = {} /\ today' = today
  BY DEF RestartActivity
<1>2. DOMAIN days' = {} /\ IsFiniteSet(counted')
  BY <1>1, FS_EmptySet
<1>3. today' \in 0..MaxDay
  BY <1>1 DEF ActivityIInv
<1>4. NothingCountsTwice'
  BY <1>1 DEF NothingCountsTwice
<1>5. QED
  BY <1>1, <1>2, <1>3, <1>4 DEF ActivityIInv

\* What a completion makes of the days, when it counts and when it does not
LEMMA RecordKeeps ==
  ASSUME ActivityIInv, NEW id, NEW r, NEW who, RecordCompletion(id, r, who)
  PROVE  /\ ActivityIInv'
         /\ DayOf(days', today - 1) = DayOf(days, today - 1)
<1> DEFINE kept == Pruned(days)
           state == DayOf(kept, today)
           counts == /\ who # Anonymous /\ ~SeenBefore(kept, id)
                     /\ Cardinality(state.seen) < MaxCompletions
                     /\ r \in DOMAIN state.routes \/ Cardinality(DOMAIN state.routes) < MaxRoutes
           k0 == <<today, id, r, who>>
           new == IF counts THEN Counted(state, id, r, who) ELSE state
           all == IF counts THEN counted \union {k0} ELSE counted
           after == IF who = Anonymous THEN kept ELSE With(kept, today, new)
<1>1. days' = after /\ counted' = all /\ today' = today
  BY DEF RecordCompletion
<1>2. /\ today \in 0..MaxDay /\ today \in Int /\ DOMAIN days \subseteq 0..today
      /\ \A x \in DOMAIN days : IsDay(days[x], counted, x)
      /\ IsFiniteSet(counted)
      /\ \A k \in counted : k[1] \in 0..today
      /\ \A k \in counted : k[1] \in {today - 1, today} =>
                               k[1] \in DOMAIN days /\ k[2] \in days[k[1]].seen
      /\ \A j, k \in counted : j[2] = k[2] /\ j # k => j[1] + 1 < k[1] \/ k[1] + 1 < j[1]
  BY DEF ActivityIInv, NothingCountsTwice
<1>3. /\ DOMAIN kept \subseteq DOMAIN days
      /\ \A x \in {today - 1, today} : x \in DOMAIN days => x \in DOMAIN kept
      /\ \A x \in DOMAIN kept : x \in {today - 1, today} /\ kept[x] = days[x]
      /\ DayOf(kept, today - 1) = DayOf(days, today - 1)
  BY PrunedDays
<1> HIDE DEF kept
<1>4. /\ DOMAIN kept \subseteq 0..today
      /\ \A x \in DOMAIN kept : IsDay(kept[x], counted, x)
      /\ \A k \in counted : k[1] \in {today - 1, today} =>
                               k[1] \in DOMAIN kept /\ k[2] \in kept[k[1]].seen
  BY <1>2, <1>3
<1>5. IsDay(state, counted, today)
  BY <1>4, DayOfIsDay
<1>6. \A k \in counted : k[1] = today => k[2] \in state.seen
  BY <1>4 DEF DayOf
<1>7. \A k \in counted : k[1] \in {today - 1, today} => k[2] \in DayOf(kept, k[1]).seen
  BY <1>4 DEF DayOf
<1>8. counts => id \notin state.seen /\ id \notin DayOf(kept, today - 1).seen
  BY DEF SeenBefore
<1> HIDE DEF state
<1>9. counted \subseteq all /\ IsFiniteSet(all)
  BY <1>2, FS_AddElement
<1>10. counts => IsDay(Counted(state, id, r, who), counted \union {k0}, today)
                 /\ Counted(state, id, r, who).seen = state.seen \union {id}
  <2> SUFFICES ASSUME counts
               PROVE  IsDay(Counted(state, id, r, who), counted \union {k0}, today)
                      /\ Counted(state, id, r, who).seen = state.seen \union {id}
    OBVIOUS
  <2>1. MayCount(state, counted, today, id, r)
    BY <1>6, <1>8 DEF MayCount
  <2> DEFINE more == counted \union {k0}
  <2>2. more = counted \union {<<today, id, r, who>>}
    OBVIOUS
  <2> HIDE DEF counts, more
  <2>3. IsDay(Counted(state, id, r, who), more, today)
        /\ Counted(state, id, r, who).seen = state.seen \union {id}
    BY <1>2, <1>5, <2>1, <2>2, CountedDay
  <2>4. QED
    BY <2>3 DEF more
<1> HIDE DEF counts
<1>11. IsDay(new, all, today) /\ state.seen \subseteq new.seen /\ (counts => id \in new.seen)
  BY <1>5, <1>10
<1>12. \A k \in all : k \in counted \/ (counts /\ k = k0)
  OBVIOUS
<1>13. k0[1] = today /\ k0[2] = id
  OBVIOUS
<1>14. counts => who # Anonymous
  BY DEF counts
<1> HIDE DEF k0, new, all
<1>15. NothingCountsTwice'
  <2>1. \A k \in counted : counts /\ k[2] = id => k[1] + 1 < today
    <3> SUFFICES ASSUME NEW k \in counted, counts, k[2] = id PROVE k[1] + 1 < today
      OBVIOUS
    <3>1. k[1] \in 0..today
      BY <1>2
    <3>2. k[1] # today
      BY <1>6, <1>8
    <3>3. k[1] # today - 1
      BY <1>7, <1>8
    <3>4. QED
      BY <1>2, <3>1, <3>2, <3>3
  <2>2. \A j, k \in all : j[2] = k[2] /\ j # k => j[1] + 1 < k[1] \/ k[1] + 1 < j[1]
    <3> SUFFICES ASSUME NEW j \in all, NEW k \in all, j[2] = k[2], j # k
                 PROVE  j[1] + 1 < k[1] \/ k[1] + 1 < j[1]
      OBVIOUS
    <3>1. CASE j \in counted /\ k \in counted
      BY <1>2, <3>1
    <3>2. CASE j \notin counted
      <4>1. counts /\ j = k0 /\ k \in counted
        BY <1>12, <3>2
      <4>2. QED
        BY <1>13, <2>1, <4>1
    <3>3. CASE k \notin counted
      <4>1. counts /\ k = k0 /\ j \in counted
        BY <1>12, <3>3
      <4>2. QED
        BY <1>13, <2>1, <4>1
    <3>4. QED
      BY <3>1, <3>2, <3>3
  <2>3. QED
    BY <1>1, <2>2 DEF NothingCountsTwice
<1>16. /\ DOMAIN after \subseteq 0..today
       /\ \A x \in DOMAIN after : IsDay(after[x], all, x)
       /\ \A k \in all : k[1] \in {today - 1, today} => k[1] \in DOMAIN after /\ k[2] \in after[k[1]].seen
       /\ DayOf(after, today - 1) = DayOf(kept, today - 1)
  <2>1. CASE who = Anonymous
    <3>1. after = kept /\ ~ counts
      BY <1>14, <2>1
    <3>2. all = counted
      BY <3>1 DEF all
    <3> HIDE DEF after
    <3>3. QED
      BY <1>4, <3>1, <3>2
  <2>2. CASE who # Anonymous
    <3>1. /\ DOMAIN after = DOMAIN kept \union {today} /\ after[today] = new
          /\ \A x \in DOMAIN kept : x # today => after[x] = kept[x]
      BY <2>2 DEF With
    <3> HIDE DEF after
    <3>2. DOMAIN after \subseteq 0..today
      BY <1>2, <1>4, <3>1
    <3>3. ASSUME NEW x \in DOMAIN after PROVE IsDay(after[x], all, x)
      <4>1. CASE x = today
        BY <1>11, <3>1, <4>1
      <4>2. CASE x # today
        <5>1. x \in DOMAIN kept /\ after[x] = kept[x]
          BY <3>1, <4>2
        <5>2. IsDay(kept[x], counted, x)
          BY <1>4, <5>1
        <5>3. QED
          BY <1>9, <5>1, <5>2, DayStays
      <4>3. QED
        BY <4>1, <4>2
    <3>4. ASSUME NEW k \in all, k[1] \in {today - 1, today}
          PROVE  k[1] \in DOMAIN after /\ k[2] \in after[k[1]].seen
      <4>1. CASE k \in counted /\ k[1] = today
        BY <1>6, <1>11, <3>1, <4>1
      <4>2. CASE k \in counted /\ k[1] # today
        BY <1>4, <3>1, <3>4, <4>2
      <4>3. CASE k \notin counted
        <5>1. counts /\ k = k0
          BY <1>12, <4>3
        <5>2. QED
          BY <1>11, <1>13, <3>1, <5>1
      <4>4. QED
        BY <4>1, <4>2, <4>3
    <3>5. DayOf(after, today - 1) = DayOf(kept, today - 1)
      <4>1. today - 1 # today
        BY <1>2
      <4>2. QED
        BY <3>1, <4>1 DEF DayOf
    <3>6. QED
      BY <3>2, <3>3, <3>4, <3>5
  <2>3. QED
    BY <2>1, <2>2
<1>17. \A k \in all : k[1] \in 0..today
  BY <1>2, <1>12, <1>13
<1> HIDE DEF after
<1>18. ActivityIInv'
  BY <1>1, <1>2, <1>9, <1>15, <1>16, <1>17 DEF ActivityIInv
<1>19. DayOf(days', today - 1) = DayOf(days, today - 1)
  BY <1>1, <1>3, <1>16
<1>20. QED
  BY <1>18, <1>19

LEMMA ActivityStep ==
  ASSUME ActivityIInv, [ActivityNext]_activityVars
  PROVE  ActivityIInv'
<1>1. CASE Expire
  BY <1>1, ExpireKeeps
<1>2. CASE NewDay
  BY <1>2, NewDayKeeps
<1>3. CASE RestartActivity
  BY <1>3, RestartKeeps
<1>4. ASSUME NEW id \in CompletionIds, NEW r \in Routes, NEW c \in Callers, RecordCompletion(id, r, c)
      PROVE  ActivityIInv'
  BY <1>4, RecordKeeps
<1>5. CASE UNCHANGED activityVars
  <2>1. today' = today /\ days' = days /\ counted' = counted
    BY <1>5 DEF activityVars
  <2>2. QED
    BY <2>1 DEF ActivityIInv, NothingCountsTwice
<1>6. QED
  BY <1>1, <1>2, <1>3, <1>4, <1>5 DEF ActivityNext

LEMMA StandsStill ==
  ASSUME ActivityIInv, [ActivityNext]_activityVars, today' = today, ~ RestartActivity
  PROVE  Released' = Released
<1>1. DayOf(days', today - 1) = DayOf(days, today - 1)
  <2>1. CASE Expire
    <3>1. days' = Pruned(days)
      BY <2>1 DEF Expire
    <3>2. QED
      BY <3>1, PrunedDays
  <2>2. ASSUME NEW id \in CompletionIds, NEW r \in Routes, NEW c \in Callers, RecordCompletion(id, r, c)
        PROVE  DayOf(days', today - 1) = DayOf(days, today - 1)
    BY <2>2, RecordKeeps
  <2>3. CASE days' = days
    BY <2>3
  <2>4. NewDay \/ UNCHANGED activityVars => days' = days
    BY DEF NewDay, activityVars
  <2>5. QED
    BY <2>1, <2>2, <2>3, <2>4 DEF ActivityNext
<1>2. DayOf(days, today - 1)' = DayOf(days', today - 1)
  BY DEF DayOf
<1>3. QED
  BY <1>1, <1>2 DEF Released

\* Of every number of completions, days and restarts: what is published is of enough
\* requests of enough consumers, counts none twice and does not move during its day.
THEOREM CountsAlwaysPrivate == ActivitySpec => CountsStayPrivate
<1>1. ActivityInit => ActivityIInv
  BY ActivityStarts
<1>2. ActivityIInv /\ [ActivityNext]_activityVars => ActivityIInv'
  BY ActivityStep
<1>3. ActivityIInv => ActivityTypeOK /\ SmallCountsAreSuppressed /\ NothingCountsTwice
  BY DaysAreBounded, ReleasedIsMany DEF ActivityIInv
<1>4. ActivityIInv /\ [ActivityNext]_activityVars
        => [today' = today /\ ~RestartActivity => Released' = Released]_activityVars
  BY StandsStill
<1>5. QED
  BY <1>1, <1>2, <1>3, <1>4, PTL DEF ActivitySpec, CountsStayPrivate, PublishedStandsStill
=============================================================================
