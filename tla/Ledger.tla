-------------------------------- MODULE Ledger --------------------------------
(***************************************************************************)
(* The money tables of inference_exchange/coordinator/store.py: accounts   *)
(* and transactions, all amounts in integer micro-USD.  Every operation is *)
(* one SQLite transaction under the Store's lock, so it is one step that   *)
(* happens entirely or not at all; the methods are action operators.       *)
(***************************************************************************)
EXTENDS AccountIds, Integers, SequencesExt

CONSTANT Production   (* is_production()                                     *)

ASSUME LedgerAssumption == Production \in BOOLEAN

VARIABLES
  row,           (* which accounts have a row                               *)
  balance,       (* balance_micro                                           *)
  spent,         (* total_spent_micro                                       *)
  earned,        (* total_earned_micro                                      *)
  granted,       (* history: what the platform gave the account             *)
  transactions   (* the transactions table, in order of id                  *)

ledgerVars == <<row, balance, spent, earned, granted, transactions>>

MICRO_PER_DOLLAR == 1000000
MIN_CHARGE_MICRO == 100
PLATFORM_FEE_PERCENT == 10
Grant == 10 * MICRO_PER_DOLLAR

Bill == [consumer : Accounts, provider : Accounts,
         cost : Nat, earning : Nat, fee : Nat]

LedgerInit ==
  /\ row = [a \in Accounts |-> "absent"]
  /\ balance = [a \in Accounts |-> 0]
  /\ spent = [a \in Accounts |-> 0]
  /\ earned = [a \in Accounts |-> 0]
  /\ granted = [a \in Accounts |-> 0]
  /\ transactions = <<>>

LedgerTypeOK ==
  /\ row \in [Accounts -> {"absent", "present", "deleted"}]
  /\ balance \in [Accounts -> Int]
  /\ spent \in [Accounts -> Nat]
  /\ earned \in [Accounts -> Nat]
  /\ granted \in [Accounts -> Int]
  /\ transactions \in Seq(Bill)

-----------------------------------------------------------------------------
(* The price of a request whose token prices add up to raw (BILL-002, 004).  *)
TotalCost(raw) == IF raw < MIN_CHARGE_MICRO THEN MIN_CHARGE_MICRO ELSE raw

(* Variant of PlatformFee that forgets the percent.                          *)
FeeTimesTen(cost) == cost * PLATFORM_FEE_PERCENT

PlatformFee(cost) == (cost * PLATFORM_FEE_PERCENT) \div 100
ProviderEarning(cost) == cost - PlatformFee(cost)

(* Variant of Funded: INSERT OR REPLACE.                                     *)
FundedAnew(balances, a) == [balances EXCEPT ![a] = Grant]

(* The row as INSERT OR IGNORE leaves it.                                    *)
Opened(a) == [row EXCEPT ![a] = "present"]
Funded(balances, a) ==
  IF row[a] = "present" THEN balances ELSE [balances EXCEPT ![a] = Grant]

(* Variant of Zeroed: INSERT OR REPLACE.                                     *)
ZeroedAnew(totals, a) == [totals EXCEPT ![a] = 0]

Zeroed(totals, a) ==
  IF row[a] = "present" THEN totals ELSE [totals EXCEPT ![a] = 0]

(* _ensure_account.                                                          *)
EnsureAccount(a) ==
  /\ row' = Opened(a)
  /\ balance' = Funded(balance, a)
  /\ spent' = Zeroed(spent, a)
  /\ earned' = Zeroed(earned, a)
  /\ granted' = Funded(granted, a)
  /\ UNCHANGED transactions

(* create_user, upsert_github_user and create_api_key: a new random id.      *)
CreateAccount(a) == row[a] = "absent" /\ EnsureAccount(a)

(* An UPDATE ... WHERE account_id = a changes nothing without a row.         *)
Updated(table, a, amount) ==
  IF row[a] = "present" THEN [table EXCEPT ![a] = @ + amount] ELSE table

(* charge_request: debit, credit with the provider's account created if need *)
(* be, and the transaction row.                                              *)
ChargeRequest(consumer, provider, raw) ==
  LET cost == TotalCost(raw)
      earning == ProviderEarning(cost)
  IN /\ row' = Opened(provider)
     /\ balance' = [Funded(Updated(balance, consumer, -cost), provider)
                      EXCEPT ![provider] = @ + earning]
     /\ spent' = Zeroed(Updated(spent, consumer, cost), provider)
     /\ earned' = [Zeroed(earned, provider) EXCEPT ![provider] = @ + earning]
     /\ granted' = Funded(granted, provider)
     /\ transactions' = Append(transactions,
          [consumer |-> consumer, provider |-> provider, cost |-> cost,
           earning |-> earning, fee |-> PlatformFee(cost)])

(* delete_user of a user who owns no provider node; its bills stay.          *)
DeleteAccount(a) ==
  /\ row[a] = "present"
  /\ row' = [row EXCEPT ![a] = "deleted"]
  /\ balance' = [balance EXCEPT ![a] = 0]
  /\ spent' = [spent EXCEPT ![a] = 0]
  /\ earned' = [earned EXCEPT ![a] = 0]
  /\ granted' = [granted EXCEPT ![a] = 0]
  /\ UNCHANGED transactions

(* reset_dev_balance; the route refuses it in production.                    *)
ResetDevBalance(a) ==
  /\ ~Production
  /\ row[a] = "present"
  /\ balance' = [balance EXCEPT ![a] = Grant]
  /\ granted' = [granted EXCEPT ![a] = @ + (Grant - balance[a])]
  /\ UNCHANGED <<row, spent, earned, transactions>>

-----------------------------------------------------------------------------
(* Sums over the transactions table.                                         *)

CostsOf(a) ==
  FoldLeft(LAMBDA sum, b : IF b.consumer = a THEN sum + b.cost ELSE sum,
           0, transactions)

EarningsOf(a) ==
  FoldLeft(LAMBDA sum, b : IF b.provider = a THEN sum + b.earning ELSE sum,
           0, transactions)

=============================================================================
