---------------------------- MODULE MCLedgerBook ----------------------------
(* Two accounts, the first of them a card, an employer and an ATM, and two  *)
(* kinds of use: lines of credit that are set up, billed, cloned and        *)
(* restored over a billing period; and postings of every channel between    *)
(* accounts of every protection type.                                       *)
EXTENDS LedgerBook

MCExternal == [k \in {10, 11} |-> IF k = 11 THEN "atmTerminal" ELSE "generic"]

Seed(type) == [cash |-> 1, fee |-> 1, type |-> type, buffer |-> 2, rate |-> 1,
               burden |-> 1, limit |-> 2]

Lines == [seeds |-> {Seed("loc")}, channels |-> {"purchase"}, amounts |-> {3},
          types |-> {"none", "loc"}, calls |-> {"overdraft", "tier"},
          horizon |-> 3, setups |-> 1, posts |-> 2, restores |-> 1]
Fees == [seeds |-> {Seed(t) : t \in Protections},
         channels |-> {"purchase", "selfTransfer", "atm"}, amounts |-> {1, 3},
         types |-> {}, calls |-> {"emit"},
         horizon |-> 1, setups |-> 1, posts |-> 3, restores |-> 0]
MCScenarios == {Lines, Fees}
=============================================================================
