---------------------------- MODULE MCRequests ----------------------------
(***************************************************************************)
(* What the settler is asked and what it asks for, checked side by side:   *)
(* the two tables share no state, so a behaviour is a behaviour of one of  *)
(* them, chosen at the start, and the other stands still.                  *)
(*                                                                         *)
(*   commands    AdminQueue, two large cases, two settlers, one with a key *)
(*   addresses   AddressRequests, one address, two derivers                *)
(***************************************************************************)
EXTENDS AdminQueue, AddressRequests

VARIABLE table

tableVars == <<adminVars, lifecycleVars, table>>

RequestsInit ==
    /\ table \in {"commands", "addresses"}
    /\ AdminQueueInit /\ AddressRequestsInit

RequestsNext ==
    /\ UNCHANGED table
    /\ \/ table = "commands" /\ AdminQueueNext /\ UNCHANGED lifecycleVars
       \/ table = "addresses" /\ AddressRequestsNext /\ UNCHANGED adminVars

\* The fairness of each module, for the behaviours that are its own.
CommandsRun ==
    /\ \A s \in Settlers :
          /\ WF_adminVars(table = "commands" /\ (StartPass(s) \/ ClaimCommand(s) \/ FinishPass(s)))
          /\ WF_adminVars(table = "commands" /\ WorkOn(s))
          /\ WF_adminVars(table = "commands" /\ WriteAnswer(s))
    /\ \A r \in Commands : WF_adminVars(table = "commands" /\ ClaimLapses(r))

AddressesRun ==
    /\ WF_lifecycleVars(table = "addresses" /\ SweepSelects)
    /\ WF_lifecycleVars(table = "addresses" /\ SweepAsks)
    /\ \A h \in Hands : /\ WF_lifecycleVars(table = "addresses" /\ (TakeAsk(h) \/ DrainDone(h)))
                        /\ WF_lifecycleVars(table = "addresses" /\ HandWorks(h))
                        /\ WF_lifecycleVars(table = "addresses" /\ (WokenUp(h) \/ KeepHouse(h)))
                        /\ WF_lifecycleVars(table = "addresses" /\ hand[h].phase = "down" /\ KeepHouse(h))
    /\ \A a \in AskIds : WF_lifecycleVars(table = "addresses" /\ AskLapses(a))

RequestsSpec ==
    RequestsInit /\ [][RequestsNext]_tableVars /\ CommandsRun /\ AddressesRun

\* The type invariants of the two.
RequestsTypeOK == AdminQueueTypeOK /\ AddressRequestsTypeOK
=============================================================================
