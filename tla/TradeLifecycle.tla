---------------------------- MODULE TradeLifecycle ----------------------------
(* The life of a trade as engine/state_machine.py documents it in             *)
(* ALLOWED_TRANSITIONS: a trade is created QUALIFIED and moves along the      *)
(* listed pairs only.  StateMachine.transition does not consult the table;    *)
(* TradePipeline is the code that is to stay within it.                       *)
EXTENDS Naturals

CONSTANT Trades     \* the trade ids of the table trades

VARIABLE stateOf    \* trade id -> the state column, or NoTrade

NoTrade == "NO_TRADE"

ALLOWED_TRANSITIONS ==
  [ QUALIFIED        |-> {"APPROVED", "REJECTED", "HALTED"},
    APPROVED         |-> {"ENTRY_PENDING", "CANCELLED", "HALTED"},
    ENTRY_PENDING    |-> {"OPEN", "PARTIALLY_FILLED", "CANCELLED", "FAILED", "HALTED"},
    PARTIALLY_FILLED |-> {"OPEN", "EXIT_PENDING", "CANCELLED", "CLOSED", "HALTED"},
    OPEN             |-> {"EXIT_PENDING", "CLOSED", "HALTED"},
    EXIT_PENDING     |-> {"CLOSED", "HALTED"},
    CANCELLED        |-> {},
    FAILED           |-> {},
    REJECTED         |-> {},
    CLOSED           |-> {},
    RECONCILING      |-> {"QUALIFIED", "APPROVED", "OPEN", "HALTED"},
    HALTED           |-> {"CLOSED", "RECONCILING"} ]

TradeState == DOMAIN ALLOWED_TRANSITIONS

Create(t) ==
  /\ stateOf[t] = NoTrade
  /\ stateOf' = [stateOf EXCEPT ![t] = "QUALIFIED"]

Move(t) ==
  /\ stateOf[t] # NoTrade
  /\ \E s \in ALLOWED_TRANSITIONS[stateOf[t]] : stateOf' = [stateOf EXCEPT ![t] = s]

Init == stateOf = [t \in Trades |-> NoTrade]
Next == \E t \in Trades : Create(t) \/ Move(t)
Spec == Init /\ [][Next]_stateOf
===============================================================================
