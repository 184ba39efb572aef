---------------------------- MODULE BankAccount ----------------------------
(***************************************************************************)
(* The bank accounts of challenge07/account.go, used by concurrent         *)
(* goroutines. Each account has its own sync.Mutex; Deposit and Withdraw   *)
(* take one, Transfer takes two, the account with the smaller ID first.    *)
(*                                                                         *)
(* A goroutine's Deposit or Withdraw is one step: validateAmount, then     *)
(* Lock, transact, Unlock, which never blocks while holding the lock. A    *)
(* Transfer is three steps, because it can block while holding a lock:     *)
(*                                                                         *)
(*   idle --TransferStart--> first --LockFirst--> second                   *)
(*        --LockSecondAndMove--> idle   (transact both, unlock both)       *)
(*                                                                         *)
(* Amounts and balances are float64 in the code and small integers here:   *)
(* the code only adds, subtracts and compares them.                        *)
(***************************************************************************)
EXTENDS Integers, Functions

CONSTANTS
    Accounts,              \* the *BankAccount values shared by the goroutines
    Threads,               \* the goroutines
    ID,                    \* ID[a]: the account's ID; only its order is used
    MinBalance,            \* MinBalance[a]
    MaxTransactionAmount,  \* the limit of validateAmount
    Amounts,               \* the amounts goroutines pass in
    TransferPairs,         \* the <<from, to>> pairs goroutines transfer between
    MaxTotal,              \* bound: no deposit takes the total held above it
    NoHolder               \* a model value: the mutex is unlocked

ASSUME /\ ID \in [Accounts -> Nat]
       /\ MinBalance \in [Accounts -> Nat]
       /\ Amounts \subseteq Int
       /\ TransferPairs \subseteq Accounts \X Accounts
       /\ NoHolder \notin Threads

\* What the goroutine's last call returned.
Results == {"none", "ok", "negativeErr", "limitErr", "insufficientErr"}

VARIABLES
    balance,   \* balance[a]: a.Balance
    holder,    \* holder[a]: the goroutine holding a.mu, or NoHolder
    pc,        \* where each goroutine is
    op,        \* the Transfer a goroutine is in: [from, to, amount]
    ret,       \* what each goroutine's last call returned
    expected   \* history: initial total plus deposits minus withdrawals

vars == <<balance, holder, pc, op, ret, expected>>

-----------------------------------------------------------------------------
\* validateAmount: the error it returns, or "ok".
ValidateAmount(amount) ==
    IF amount < 0 THEN "negativeErr"
    ELSE IF amount > MaxTransactionAmount THEN "limitErr"
    ELSE "ok"

\* Fault variant of transact that checks the balance before the debit
\* instead of the balance it would leave.
TransactChecksBefore(bal, a, amount) ==
    IF amount < 0 /\ bal[a] < MinBalance[a]
    THEN [ok |-> FALSE, bal |-> bal]
    ELSE [ok |-> TRUE, bal |-> [bal EXCEPT ![a] = @ + amount]]

\* transact: refuse a debit that would take the balance below MinBalance,
\* else add amount to the balance.
Transact(bal, a, amount) ==
    IF amount < 0 /\ bal[a] + amount < MinBalance[a]
    THEN [ok |-> FALSE, bal |-> bal]
    ELSE [ok |-> TRUE, bal |-> [bal EXCEPT ![a] = @ + amount]]

\* Fault variant of Transfer's body that credits `to` before debiting
\* `from`, and returns the debit's error without undoing the credit.
MoveCreditFirst(bal, from, to, amount) ==
    LET credit == Transact(bal, to, amount)
        debit  == Transact(credit.bal, from, -amount)
    IN  IF debit.ok THEN debit ELSE [ok |-> FALSE, bal |-> credit.bal]

\* The body of Transfer under both locks: from.transact(-amount), and only
\* if that succeeded, to.transact(amount).
Move(bal, from, to, amount) ==
    LET debit == Transact(bal, from, -amount)
    IN  IF debit.ok THEN Transact(debit.bal, to, amount) ELSE debit

\* Fault variant of the lock order: always lock `from` first.
FirstLockFromFirst(o) == o.from

\* Transfer's lock order: the account with the smaller ID first.
FirstLock(o) == IF ID[o.from] < ID[o.to] THEN o.from ELSE o.to
SecondLock(o) == IF FirstLock(o) = o.from THEN o.to ELSE o.from

\* The op of a goroutine outside Transfer (Transfer's arguments are locals).
NoOp == [from |-> NoHolder, to |-> NoHolder, amount |-> 0]

-----------------------------------------------------------------------------
\* Every state NewBankAccount can leave the accounts in: a balance at least
\* the (non-negative) minimum.
Init ==
    /\ balance \in {b \in [Accounts -> 0..MaxTotal] :
                       /\ \A a \in Accounts : b[a] >= MinBalance[a]
                       /\ SumFunction(b) <= MaxTotal}
    /\ holder = [a \in Accounts |-> NoHolder]
    /\ pc = [t \in Threads |-> "idle"]
    /\ op = [t \in Threads |-> NoOp]
    /\ ret = [t \in Threads |-> "none"]
    /\ expected = SumFunction(balance)

\* Deposit(amount) on a: validate, then lock, transact(amount), unlock.
Deposit(t, a, amount) ==
    /\ pc[t] = "idle"
    /\ \/ /\ ValidateAmount(amount) # "ok"
          /\ ret' = [ret EXCEPT ![t] = ValidateAmount(amount)]
          /\ UNCHANGED <<balance, expected>>
       \/ /\ ValidateAmount(amount) = "ok"
          /\ holder[a] = NoHolder
          /\ SumFunction(balance) + amount <= MaxTotal
          /\ LET r == Transact(balance, a, amount)
             IN  /\ balance' = r.bal
                 /\ ret' = [ret EXCEPT ![t] = "ok"]
                 /\ expected' = expected + amount
    /\ UNCHANGED <<holder, pc, op>>

\* Withdraw(amount) on a: validate, then lock, transact(-amount), unlock.
Withdraw(t, a, amount) ==
    /\ pc[t] = "idle"
    /\ \/ /\ ValidateAmount(amount) # "ok"
          /\ ret' = [ret EXCEPT ![t] = ValidateAmount(amount)]
          /\ UNCHANGED <<balance, expected>>
       \/ /\ ValidateAmount(amount) = "ok"
          /\ holder[a] = NoHolder
          /\ LET r == Transact(balance, a, -amount)
             IN  /\ balance' = r.bal
                 /\ ret' = [ret EXCEPT ![t] = IF r.ok THEN "ok" ELSE "insufficientErr"]
                 /\ expected' = IF r.ok THEN expected - amount ELSE expected
    /\ UNCHANGED <<holder, pc, op>>

\* from.Transfer(amount, to): validateAmount, then on to the locks.
TransferStart(t, from, to, amount) ==
    /\ pc[t] = "idle"
    /\ \/ /\ ValidateAmount(amount) # "ok"
          /\ ret' = [ret EXCEPT ![t] = ValidateAmount(amount)]
          /\ UNCHANGED <<pc, op>>
       \/ /\ ValidateAmount(amount) = "ok"
          /\ op' = [op EXCEPT ![t] = [from |-> from, to |-> to, amount |-> amount]]
          /\ pc' = [pc EXCEPT ![t] = "first"]
          /\ UNCHANGED ret
    /\ UNCHANGED <<balance, holder, expected>>

\* Transfer: the first Lock (blocks while another goroutine holds it).
LockFirst(t) ==
    /\ pc[t] = "first"
    /\ holder[FirstLock(op[t])] = NoHolder
    /\ holder' = [holder EXCEPT ![FirstLock(op[t])] = t]
    /\ pc' = [pc EXCEPT ![t] = "second"]
    /\ UNCHANGED <<balance, op, ret, expected>>

\* Transfer: the second Lock (sync.Mutex is not reentrant: it blocks even
\* when this goroutine holds it), then the transfer body and both deferred
\* Unlocks.
LockSecondAndMove(t) ==
    LET o == op[t]
        r == Move(balance, o.from, o.to, o.amount)
    IN  /\ pc[t] = "second"
        /\ holder[SecondLock(o)] = NoHolder
        /\ balance' = r.bal
        /\ ret' = [ret EXCEPT ![t] = IF r.ok THEN "ok" ELSE "insufficientErr"]
        /\ holder' = [holder EXCEPT ![FirstLock(o)] = NoHolder]
        /\ pc' = [pc EXCEPT ![t] = "idle"]
        /\ op' = [op EXCEPT ![t] = NoOp]
        /\ UNCHANGED expected

Next ==
    \E t \in Threads :
        \/ \E a \in Accounts, x \in Amounts : Deposit(t, a, x) \/ Withdraw(t, a, x)
        \/ \E p \in TransferPairs, x \in Amounts : TransferStart(t, p[1], p[2], x)
        \/ LockFirst(t)
        \/ LockSecondAndMove(t)

(***************************************************************************)
(* A goroutine blocked in Lock gets the mutex once it is free often        *)
(* enough: sync.Mutex hands a mutex waited on for over 1ms to the oldest   *)
(* waiter (starvation mode), hence strong fairness for the lock steps.     *)
(* Goroutines are not obliged to start calls.                              *)
(***************************************************************************)
Fairness ==
    \A t \in Threads : SF_vars(LockFirst(t)) /\ SF_vars(LockSecondAndMove(t))

Spec == Init /\ [][Next]_vars /\ Fairness

-----------------------------------------------------------------------------
TypeOK ==
    /\ balance \in [Accounts -> Nat]
    /\ holder \in [Accounts -> Threads \cup {NoHolder}]
    /\ pc \in [Threads -> {"idle", "first", "second"}]
    /\ ret \in [Threads -> Results]
    /\ expected \in Int

\* Transfers neither create nor destroy money: the accounts always hold the
\* initial total plus what was deposited minus what was withdrawn, however
\* Transfer, Deposit and Withdraw calls of different goroutines interleave
\* and whichever of their checks fail.
MoneyConserved == SumFunction(balance) = expected

\* No Withdraw or Transfer takes an account below its MinBalance.
AboveMinimum == \A a \in Accounts : balance[a] >= MinBalance[a]

\* Every Transfer that a goroutine starts returns: the ID-ordered locking
\* of Transfer never leaves two goroutines waiting on each other (or one on
\* itself).
TransfersComplete == \A t \in Threads : pc[t] # "idle" ~> pc[t] = "idle"

=============================================================================
