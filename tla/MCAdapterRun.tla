---------------------------- MODULE MCAdapterRun -----------------------------
(* Three model turns, one scripted turn and responses of up to three calls. *)
EXTENDS AdapterRun

Call(kind, tool, args) == [kind |-> kind, tool |-> tool, args |-> args]
pay == Call("declared", "pay", "order")
check == Call("declared", "check", "order")
badPay == Call("malformed", "pay", "none")
ghost == Call("undeclared", "ghost", "order")
astray == Call("undeclared", "pay", "order")
toB == Call("handoff", "to_b", "none")

MCCalls ==
  {<<>>, <<pay, pay>>, <<check, badPay>>, <<ghost, check, pay>>,
   <<check, astray>>, <<toB, pay, toB>>}
MCAgentCalls == {pay, check}
MCToolNames == {"pay", "check"}
MCUsages == {[tokens |-> 1, cost |-> 1], Unknown}
=============================================================================
