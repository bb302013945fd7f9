------------------------------ MODULE MCExecution ------------------------------
(* Instances of ExecutionService for TLC: each cfg picks commands and events *)
(* by name, and the name says what they are.                                 *)
EXTENDS ExecutionService

MCCommandKind ==
    [c \in Commands |->
        CASE c \in {"order1", "order2"} -> "SUBMIT"
          [] c = "cancel1"              -> "CANCEL"
          [] c = "pause1"               -> "PAUSE"
          [] c = "flatten1"             -> "FLATTEN"
          [] OTHER                      -> "TAKEOVER_REQUEST"]

\* push1 and query1 are two reports of one trade.
MCEventKind ==
    [e \in Events |->
        CASE e \in {"push1", "query1", "push2"} -> "trade"
          [] e = "bad1"                         -> "callback_failure"
          [] e = "tick1"                        -> "market"
          [] OTHER                              -> "report"]

MCTradeKeyOf == [e \in Events |-> IF e = "push2" THEN "trade2" ELSE "trade1"]
================================================================================
