------------------------------- MODULE LocScan -------------------------------
(***************************************************************************)
(* What the line-of-credit accrual promises (clearing/loc_accrual.hpp,     *)
(* comment on sweep): the interest, the instants and the order of the scan *)
(* that visits every enabled slot at every sweep.  Dollar-seconds grow     *)
(* with the clock; a sweep starts the billing clock of a slot it sees for  *)
(* the first time and bills, in ascending slot order, every slot whose     *)
(* period has passed.  Balances change in any way between sweeps.          *)
(***************************************************************************)
EXTENDS Integers, Sequences, FiniteSets

CONSTANTS Slots, Period

VARIABLES now, cash, on, apr, emit,
          owed,      \* dollar-seconds of the slot since it was last billed
          started,   \* the slot has been seen since it was enabled
          lastBill,  \* when the slot was last billed, 0 before its clock starts
          bills,     \* the interest rows, in order
          sweeps,    \* the parity of the sweeps made
          saved      \* the state that restore brings back

state == <<cash, owed, started, lastBill>>
vars == <<now, cash, on, apr, emit, owed, started, lastBill, bills, sweeps, saved>>

Init ==
  /\ now = 1 /\ bills = << >> /\ sweeps = 0 /\ emit = TRUE
  /\ cash \in [Slots -> Int] /\ apr \in [Slots -> Int]
  /\ on \in [Slots -> BOOLEAN]
  /\ owed = [i \in Slots |-> 0]
  /\ started = [i \in Slots |-> FALSE]
  /\ lastBill = [i \in Slots |-> 0]
  /\ saved = <<now, state>>

\* One unit of time at the present balances.
Tick ==
  /\ now' = now + 1
  /\ owed' = [i \in Slots |->
                owed[i] + IF on[i] /\ started[i] /\ cash[i] < 0 THEN -cash[i] ELSE 0]
  /\ UNCHANGED <<cash, on, apr, emit, started, lastBill, bills, sweeps, saved>>

\* A slot is enabled, enabled again or disabled: its accrual starts afresh.
Setup(i) ==
  /\ on' \in [Slots -> BOOLEAN] /\ apr' \in [Slots -> Int]
  /\ cash' \in [Slots -> Int]
  /\ \A j \in Slots \ {i} : on'[j] = on[j] /\ apr'[j] = apr[j] /\ cash'[j] = cash[j]
  /\ owed' = [owed EXCEPT ![i] = 0]
  /\ started' = [started EXCEPT ![i] = FALSE]
  /\ lastBill' = [lastBill EXCEPT ![i] = 0]
  /\ UNCHANGED <<now, emit, bills, sweeps, saved>>

\* A posting touches slots and moves cash.
Post ==
  /\ cash' \in [Slots -> Int]
  /\ \A i \in Slots : cash'[i] # cash[i] => started'[i] \/ ~on[i]
  /\ started' \in [Slots -> BOOLEAN]
  /\ \A i \in Slots : started[i] => started'[i]
  /\ \A i \in Slots : started'[i] => started[i] \/ on[i]
  /\ UNCHANGED <<now, on, apr, emit, owed, lastBill, bills, sweeps, saved>>

Matures(i) == on[i] /\ lastBill[i] # 0 /\ now - lastBill[i] >= Period
Owes(i) == owed[i] * apr[i] > 0
Billed == {i \in Slots : Matures(i) /\ Owes(i)}

\* Billed in ascending order of slot.
BillsOf(S) ==
  [k \in 1 .. Cardinality(S) |->
     LET i == CHOOSE x \in S : Cardinality({y \in S : y < x}) = k - 1
     IN  [acct |-> i, amount |-> owed[i] * apr[i], chan |-> "locInterest", ts |-> now]]

\* The scan.
Sweep ==
  /\ started' = [i \in Slots |-> started[i] \/ (on[i] /\ lastBill[i] = 0)]
  /\ lastBill' = [i \in Slots |->
                    IF Matures(i) \/ (on[i] /\ lastBill[i] = 0) THEN now ELSE lastBill[i]]
  /\ owed' = [i \in Slots |-> IF Matures(i) THEN 0 ELSE owed[i]]
  /\ IF emit
     THEN /\ bills' = bills \o BillsOf(Billed)
          /\ cash' = [i \in Slots |->
                        cash[i] - IF i \in Billed THEN owed[i] * apr[i] ELSE 0]
     ELSE UNCHANGED <<bills, cash>>
  /\ sweeps' = 1 - sweeps
  /\ UNCHANGED <<now, on, apr, emit, saved>>

SetEmit ==
  /\ emit' \in BOOLEAN
  /\ UNCHANGED <<now, cash, on, apr, owed, started, lastBill, bills, sweeps, saved>>

Save ==
  /\ saved' = <<now, state>>
  /\ UNCHANGED <<now, cash, on, apr, emit, owed, started, lastBill, bills, sweeps>>

RestoreSaved ==
  /\ now' = saved[1] /\ state' = saved[2]
  /\ UNCHANGED <<on, apr, emit, bills, sweeps, saved>>

Next ==
  \/ Tick \/ Post \/ Sweep \/ SetEmit \/ Save \/ RestoreSaved
  \/ \E i \in Slots : Setup(i)

Spec == Init /\ [][Next]_vars
=============================================================================
