--------------------------- MODULE RequestsProofs ---------------------------
(***************************************************************************)
(* The owner's commands (AdminQueue) and the settler's wishes about        *)
(* addresses (AddressRequests), for any number of settlers, derivers,      *)
(* cases, commands, addresses, faults and deaths, with or without a key;   *)
(* and both at once, as MCRequests has them.                               *)
(***************************************************************************)
EXTENDS MCRequests, TLAPS

-----------------------------------------------------------------------------
(***************************************************************************)
(* AdminQueue                                                              *)
(*                                                                         *)
(* A claim that was written off may still be decided by its holder, so the *)
(* status of a row does not say whether its decision is out.  What carries *)
(* the proof is that a row is claimed once: it has one holder at most      *)
(* (OneHolder), and none any more when its answer says something           *)
(* (AnswersAreFinal).                                                      *)
(***************************************************************************)
Holds(s, r) == settler[s].phase \in {"work", "answer"} /\ settler[s].id = r

OneHolder == \A s, t \in Settlers : \A r \in Commands : Holds(s, r) /\ Holds(t, r) => s = t

\* Definite answers: all but unavailable, which promises nothing.
Definite == Refusals \cup {"confirm", "resolved"}

HolderKnows ==
    \A s \in Settlers :
        /\ settler[s].phase \in {"work", "answer"} =>
              /\ settler[s].id \in Commands
              /\ request[settler[s].id].status \notin {"absent", "pending"}
              /\ settler[s].served < BatchSize
        /\ settler[s].phase = "work" => settler[s].id \notin decided
        /\ settler[s].phase = "answer" =>
              /\ settler[s].reply \in Definite
              /\ settler[s].reply = "resolved" <=> settler[s].id \in decided
              /\ settler[s].reply = "confirm" =>
                    settler[s].code.for = command[settler[s].id].case

AskedInOrder ==
    \A r \in Commands :
        /\ told[r] = "none" => /\ request[r].status = "absent"
                               /\ \A q \in Commands : r < q => told[q] = "none"
        /\ told[r] # "none" => command[r] \in Decisions

DecisionsStand ==
    /\ \A r \in decided :
          /\ request[r].status \notin {"absent", "pending"}
          /\ review[command[r].case] = command[r].verb
          /\ NeedsCode(command[r]) =>
                command[r].code # NoCode /\ command[r].code.for = command[r].case
    /\ \A r, q \in decided : command[r].case = command[q].case => r = q

AnswersAreFinal ==
    \A r \in Commands :
        request[r].status \in {"done", "failed", "pruned"} =>
            /\ request[r].reply # "none"
            /\ request[r].reply # "unavailable" =>
                  /\ \A s \in Settlers : ~Holds(s, r)
                  /\ request[r].reply = "resolved" <=> r \in decided
                  /\ request[r].reply = "confirm" => request[r].code.for = command[r].case

HeardFromTheRow ==
    \A r \in Commands :
        told[r] \in Definite =>
            request[r].status \in {"done", "failed", "pruned"} /\ request[r].reply = told[r]

CodesWereShown ==
    \A r \in Commands :
        command[r].code # NoCode =>
            \E q \in 1..(r - 1) : told[q] = "confirm" /\ command[q].case = command[r].code.for

CommandsInv ==
    /\ AdminQueueTypeOK /\ OneHolder /\ HolderKnows /\ AskedInOrder /\ DecisionsStand
    /\ AnswersAreFinal /\ HeardFromTheRow /\ CodesWereShown

-----------------------------------------------------------------------------
\* Nothing is asked, claimed or decided at the start.
LEMMA NothingDecidedYet == AdminQueueInit => CommandsInv
<1> SUFFICES ASSUME AdminQueueInit PROVE CommandsInv
  OBVIOUS
<1> USE DEF AdminQueueInit
<1>1. AdminQueueTypeOK
  BY AdminQueueAssumption DEF AdminQueueTypeOK, NoDecision, CommandRows, NoCommandRow, Shifts, NewShift,
     Replies, Refusals, Periods, Commands
<1>2. OneHolder /\ HolderKnows
  BY DEF OneHolder, HolderKnows, Holds, NewShift
<1>3. AskedInOrder /\ HeardFromTheRow /\ AnswersAreFinal
  BY DEF AskedInOrder, HeardFromTheRow, AnswersAreFinal, NoCommandRow, Definite, Refusals
<1>4. DecisionsStand /\ CodesWereShown
  BY DEF DecisionsStand, CodesWereShown, NoDecision
<1> QED
  BY <1>1, <1>2, <1>3, <1>4 DEF CommandsInv

\* Commands are numbered in the order they are asked.
LEMMA EarlierCommands ==
    ASSUME NEW q \in Commands, NEW p \in 1..(q - 1)
    PROVE  p \in Commands
BY AdminQueueAssumption DEF Commands

\* The owner asks.
LEMMA AskKeeps ==
    ASSUME CommandsInv, NEW r \in Commands, Ask(r)
    PROVE  CommandsInv'
<1> USE DEF CommandsInv
<1>1. /\ told[r] = "none" /\ \A q \in 1..(r - 1) : told[q] # "none"
      /\ command' = [command EXCEPT ![r] = command'[r]] /\ command'[r] \in Decisions
      /\ command'[r].code \in ShownCodes \cup {NoCode}
      /\ \/ request' = [request EXCEPT ![r].status = "pending"] /\ told' = [told EXCEPT ![r] = "waiting"]
         \/ request' = request /\ told' = [told EXCEPT ![r] = "unavailable"]
      /\ UNCHANGED <<review, decided, settler, period, deaths>>
  <2>1. ShownCodes \cup {NoCode} \subseteq Codes \cup {NoCode}
    BY DEF ShownCodes, AdminQueueTypeOK, CommandRows
  <2> QED
    BY <2>1 DEF Ask, Decisions, AdminQueueTypeOK
<1>2. /\ request \in [Commands -> CommandRows] /\ request[r].status = "absent"
      /\ told \in [Commands -> Replies \cup {"none", "waiting"}] /\ r \notin decided
      /\ command \in [Commands -> Decisions \cup {NoDecision}]
      /\ \A q \in Commands : r < q => told[q] = "none"
      /\ decided \subseteq Commands /\ Commands \subseteq Int
  BY <1>1 DEF AdminQueueTypeOK, AskedInOrder, DecisionsStand, Commands
<1>3. /\ \A q \in Commands : q # r => /\ request'[q] = request[q] /\ told'[q] = told[q]
                                      /\ command'[q] = command[q]
      /\ told'[r] \in {"waiting", "unavailable"}
      /\ request'[r].status \in {"absent", "pending"}
      /\ request' \in [Commands -> CommandRows] /\ command'[r] \in Decisions
  BY <1>1, <1>2 DEF CommandRows
<1>4. AdminQueueTypeOK'
  BY <1>1, <1>2, <1>3 DEF AdminQueueTypeOK, Replies
<1>5. OneHolder'
  BY <1>1 DEF OneHolder, Holds
<1>6. HolderKnows'
  <2>1. \A s \in Settlers : settler[s].phase \in {"work", "answer"} => settler[s].id # r
    BY <1>2 DEF HolderKnows
  <2> QED
    BY <1>1, <1>3, <2>1 DEF HolderKnows
<1>7. AskedInOrder'
  BY <1>1, <1>2, <1>3 DEF AskedInOrder, Commands
<1>8. DecisionsStand'
  <2>1. \A q \in decided : q # r
    BY <1>2
  <2> QED
    BY <1>1, <1>2, <1>3, <2>1 DEF DecisionsStand, NeedsCode
<1>9. AnswersAreFinal' /\ HeardFromTheRow'
  BY <1>1, <1>2, <1>3 DEF AnswersAreFinal, HeardFromTheRow, Holds, Definite, Refusals
<1>10. CodesWereShown'
  <2> SUFFICES ASSUME NEW q \in Commands, command'[q].code # NoCode
               PROVE  \E p \in 1..(q - 1) : told'[p] = "confirm" /\ command'[p].case = command'[q].code.for
    BY DEF CommandsInv, CodesWereShown
  <2>1. \A p \in Commands : told[p] = "confirm" => p # r /\ told'[p] = "confirm" /\ command'[p] = command[p]
    BY <1>1, <1>3
  <2>2. CASE q # r
    <3>1. PICK p \in 1..(q - 1) : told[p] = "confirm" /\ command[p].case = command[q].code.for
      BY <1>3, <2>2 DEF CodesWereShown
    <3>2. p \in Commands
      BY EarlierCommands
    <3> QED
      BY <1>3, <2>1, <2>2, <3>1, <3>2
  <2>3. CASE q = r
    <3>1. PICK p \in Commands : told[p] = "confirm" /\ command'[r].code = request[p].code
      BY <1>1, <2>3 DEF ShownCodes
    <3>2. p < r
      <4>1. p # r /\ ~(r < p)
        BY <1>1, <1>2, <3>1
      <4> QED
        BY <1>2, <4>1 DEF Commands
    <3>3. command[p].case = request[p].code.for
      BY <3>1 DEF HeardFromTheRow, AnswersAreFinal, Definite
    <3>4. p \in 1..(r - 1)
      BY <1>2, <3>2 DEF Commands
    <3> QED
      BY <2>1, <2>3, <3>1, <3>3, <3>4
  <2> QED
    BY <2>2, <2>3
<1> QED
  BY <1>4, <1>5, <1>6, <1>7, <1>8, <1>9, <1>10

\* He reads what the row says, or gives up waiting.
LEMMA HearKeeps ==
    ASSUME CommandsInv, NEW r \in Commands, Hear(r) \/ HearNothing(r)
    PROVE  CommandsInv'
<1> USE DEF CommandsInv
<1>1. /\ told[r] = "waiting" /\ told' = [told EXCEPT ![r] = told'[r]]
      /\ \/ request[r].status \in {"done", "failed"} /\ told'[r] = request[r].reply
         \/ told'[r] = "unavailable"
      /\ UNCHANGED <<command, request, review, decided, settler, period, deaths>>
  BY DEF Hear, HearNothing, AdminQueueTypeOK
<1>2. /\ request \in [Commands -> CommandRows]
      /\ told \in [Commands -> Replies \cup {"none", "waiting"}]
      /\ request[r].status \in {"done", "failed"} => request[r].reply \in Replies
      /\ Commands \subseteq Int
  BY DEF AdminQueueTypeOK, AnswersAreFinal, CommandRows, Commands
<1>3. \A q \in Commands : q # r => told'[q] = told[q]
  BY <1>1, <1>2
<1>4. told'[r] \in Replies /\ told'[r] # "none"
  BY <1>1, <1>2 DEF Replies, Refusals
<1>5. AdminQueueTypeOK'
  BY <1>1, <1>2, <1>4 DEF AdminQueueTypeOK
<1>6. OneHolder' /\ HolderKnows' /\ DecisionsStand' /\ AnswersAreFinal'
  BY <1>1 DEF OneHolder, HolderKnows, DecisionsStand, AnswersAreFinal, Holds, NeedsCode
<1>7. AskedInOrder'
  BY <1>1, <1>2, <1>3, <1>4 DEF AskedInOrder
<1>8. HeardFromTheRow'
  BY <1>1, <1>3 DEF HeardFromTheRow, Definite, Refusals
<1>9. CodesWereShown'
  <2>1. \A p \in Commands : told[p] = "confirm" => told'[p] = "confirm"
    BY <1>1, <1>3
  <2> QED
    BY <1>1, <2>1, EarlierCommands DEF CodesWereShown
<1> QED
  BY <1>5, <1>6, <1>7, <1>8, <1>9

\* What a step leaves alone when it changes neither what was asked nor what was heard.
LEMMA AskersUndisturbed ==
    ASSUME CommandsInv, UNCHANGED <<command, told>>,
           \A r \in Commands : request[r].status = "absent" => request'[r].status = "absent",
           \A r \in Commands : request[r].status \in {"done", "failed", "pruned"} =>
               /\ request'[r].status \in {"done", "failed", "pruned"}
               /\ request'[r].reply = request[r].reply
    PROVE  AskedInOrder' /\ HeardFromTheRow' /\ CodesWereShown'
<1> USE DEF CommandsInv
<1>1. AskedInOrder'
  BY DEF AskedInOrder
<1>2. HeardFromTheRow'
  BY DEF HeardFromTheRow
<1>3. CodesWereShown'
  BY DEF CodesWereShown
<1> QED
  BY <1>1, <1>2, <1>3

\* A claim is written off; its holder may still be at work.
LEMMA ClaimLapsesKeeps ==
    ASSUME CommandsInv, NEW r \in Commands, ClaimLapses(r)
    PROVE  CommandsInv'
<1> USE DEF CommandsInv
<1>1. /\ request[r].status = "processing" /\ request' = [request EXCEPT ![r].lapsed = TRUE]
      /\ UNCHANGED <<command, review, decided, told, settler, period, deaths>>
  BY DEF ClaimLapses
<1>2. request \in [Commands -> CommandRows]
  BY DEF AdminQueueTypeOK
<1>3. /\ request' \in [Commands -> CommandRows]
      /\ \A q \in Commands : /\ request'[q].status = request[q].status
                              /\ request'[q].reply = request[q].reply
                              /\ request'[q].code = request[q].code
  BY <1>1, <1>2 DEF CommandRows
<1>4. AdminQueueTypeOK'
  BY <1>1, <1>3 DEF AdminQueueTypeOK
<1>5. OneHolder' /\ HolderKnows' /\ DecisionsStand'
  BY <1>1, <1>3 DEF OneHolder, HolderKnows, DecisionsStand, Holds, NeedsCode, AdminQueueTypeOK
<1>6. AnswersAreFinal'
  BY <1>1, <1>3 DEF AnswersAreFinal, Holds
<1> QED
  BY <1>1, <1>3, <1>4, <1>5, <1>6, AskersUndisturbed

\* A pass begins: rows that are done are pruned, overdue claims are written off.
LEMMA StartPassKeeps ==
    ASSUME CommandsInv, NEW s \in Settlers, StartPass(s)
    PROVE  CommandsInv'
<1> USE DEF CommandsInv
<1>1. PICK gone \in SUBSET {r \in Commands : Prunable(r)} :
          request' = [r \in Commands |->
              IF r \in gone THEN [request[r] EXCEPT !.status = "pruned"] ELSE Abandoned(r)]
  BY DEF StartPass
<1>2. /\ settler' = [settler EXCEPT ![s] = [NewShift EXCEPT !.phase = "claim"]]
      /\ UNCHANGED <<command, review, decided, told, period, deaths>>
      /\ settler \in [Settlers -> Shifts] /\ request \in [Commands -> CommandRows]
  BY DEF StartPass, AdminQueueTypeOK
<1>3. ASSUME NEW r \in Commands
      PROVE  /\ request'[r] \in CommandRows
             /\ \/ request'[r] = request[r]
                \/ /\ request[r].status \in {"done", "failed"}
                   /\ request'[r].status = "pruned" /\ request'[r].reply = request[r].reply
                   /\ request'[r].code = request[r].code
                \/ /\ request[r].status = "processing"
                   /\ request'[r].status = "failed" /\ request'[r].reply = "unavailable"
  <2>1. request[r] \in CommandRows
    BY <1>2
  <2>2. CASE r \in gone
    BY <1>1, <2>1, <2>2 DEF Prunable, CommandRows
  <2>3. CASE r \notin gone
    BY <1>1, <2>1, <2>3 DEF Abandoned, Overdue, CommandRows, Replies
  <2> QED
    BY <2>2, <2>3
<1>4. /\ settler'[s].phase = "claim" /\ settler'[s] \in Shifts
      /\ \A t \in Settlers : t # s => settler'[t] = settler[t]
  BY <1>2, AdminQueueAssumption DEF NewShift, Shifts, Replies
<1>5. AdminQueueTypeOK'
  <2>1. request' \in [Commands -> CommandRows]
    BY <1>1, <1>3
  <2>2. settler' \in [Settlers -> Shifts]
    BY <1>2, <1>4
  <2> QED
    BY <1>2, <2>1, <2>2 DEF AdminQueueTypeOK
<1>6. \A t \in Settlers, r \in Commands : Holds(t, r)' => Holds(t, r)
  BY <1>4 DEF Holds
<1>7. OneHolder'
  BY <1>6 DEF OneHolder
<1>8. HolderKnows'
  <2> SUFFICES ASSUME NEW t \in Settlers, settler'[t].phase \in {"work", "answer"}
               PROVE  /\ settler'[t] = settler[t]
                      /\ settler[t].id \in Commands => request'[settler[t].id].status \notin {"absent", "pending"}
    BY <1>2 DEF CommandsInv, HolderKnows
  <2>1. settler'[t] = settler[t]
    BY <1>4
  <2> QED
    BY <1>3, <2>1 DEF HolderKnows
<1>9. DecisionsStand'
  BY <1>2, <1>3 DEF DecisionsStand, NeedsCode, AdminQueueTypeOK
<1>10. AnswersAreFinal'
  <2> SUFFICES ASSUME NEW r \in Commands, request'[r].status \in {"done", "failed", "pruned"},
                      request'[r].reply # "unavailable"
               PROVE  /\ request'[r].reply # "none"
                      /\ \A t \in Settlers : ~Holds(t, r)'
                      /\ request'[r].reply = "resolved" <=> r \in decided
                      /\ request'[r].reply = "confirm" => request'[r].code.for = command[r].case
    BY <1>2 DEF CommandsInv, AnswersAreFinal
  <2>1. /\ request[r].status \in {"done", "failed", "pruned"}
        /\ request'[r].reply = request[r].reply /\ request'[r].code = request[r].code
    BY <1>3
  <2> QED
    BY <1>6, <2>1 DEF AnswersAreFinal
<1> QED
  BY <1>2, <1>3, <1>5, <1>7, <1>8, <1>9, <1>10, AskersUndisturbed

\* A settler claims the next command.
LEMMA ClaimCommandKeeps ==
    ASSUME CommandsInv, NEW s \in Settlers, ClaimCommand(s)
    PROVE  CommandsInv'
<1> USE DEF CommandsInv
<1>1. PICK r \in Commands :
          /\ request[r].status = "pending"
          /\ request' = [request EXCEPT ![r].status = "processing", ![r].lapsed = FALSE]
          /\ settler' = [settler EXCEPT ![s].phase = "work", ![s].id = r]
  BY DEF ClaimCommand, Waiting
<1>2. /\ UNCHANGED <<command, review, decided, told, period, deaths>>
      /\ settler[s].phase = "claim"
      /\ settler \in [Settlers -> Shifts] /\ request \in [Commands -> CommandRows]
      /\ r \notin decided /\ settler[s].served < BatchSize
  BY <1>1 DEF ClaimCommand, AdminQueueTypeOK, DecisionsStand
<1>3. /\ settler'[s].phase = "work" /\ settler'[s].id = r /\ settler'[s] \in Shifts
      /\ settler'[s].served = settler[s].served
      /\ \A t \in Settlers : t # s => settler'[t] = settler[t]
  <2>1. r \in 0..MaxCommands
    BY AdminQueueAssumption DEF Commands
  <2>2. settler'[s] = [settler[s] EXCEPT !.phase = "work", !.id = r]
    BY <1>1, <1>2
  <2>3. settler[s] \in Shifts
    BY <1>2
  <2>4. settler'[s] \in Shifts
    BY <2>1, <2>2, <2>3 DEF Shifts
  <2> QED
    BY <1>1, <1>2, <2>2, <2>3, <2>4 DEF Shifts
<1>4. /\ request'[r].status = "processing" /\ request'[r] \in CommandRows
      /\ \A q \in Commands : q # r => request'[q] = request[q]
  BY <1>1, <1>2 DEF CommandRows
<1>5. \A t \in Settlers : ~Holds(t, r)
  BY <1>1 DEF Holds, HolderKnows
<1>6. AdminQueueTypeOK'
  <2>1. request' \in [Commands -> CommandRows] /\ settler' \in [Settlers -> Shifts]
    BY <1>1, <1>2, <1>3, <1>4
  <2> QED
    BY <1>2, <2>1 DEF AdminQueueTypeOK
<1>7. OneHolder'
  BY <1>3, <1>5 DEF OneHolder, Holds
<1>8. HolderKnows'
  BY <1>2, <1>3, <1>4, <1>5 DEF HolderKnows, Holds
<1>9. DecisionsStand'
  BY <1>2, <1>4 DEF DecisionsStand, NeedsCode, AdminQueueTypeOK
<1>10. AnswersAreFinal'
  BY <1>2, <1>3, <1>4 DEF AnswersAreFinal, Holds
<1> QED
  BY <1>1, <1>2, <1>4, <1>6, <1>7, <1>8, <1>9, <1>10, AskersUndisturbed

\* The end of a pass and the end of a process: one holder less.
LEMMA LettingGoKeeps ==
    ASSUME CommandsInv, NEW s \in Settlers, FinishPass(s) \/ Die(s)
    PROVE  CommandsInv'
<1> USE DEF CommandsInv
<1>1. /\ UNCHANGED <<command, request, review, decided, told, period>>
      /\ settler' = [settler EXCEPT ![s] = settler'[s]]
      /\ settler'[s].phase \in {"start", "down"} /\ settler'[s] \in Shifts
      /\ settler \in [Settlers -> Shifts] /\ deaths' \in 0..MaxDeaths
  BY AdminQueueAssumption DEF FinishPass, Die, AdminQueueTypeOK, NewShift, Shifts, Replies
<1>2. \A t \in Settlers : t # s => settler'[t] = settler[t]
  BY <1>1
<1>3. AdminQueueTypeOK'
  BY <1>1 DEF AdminQueueTypeOK
<1>4. OneHolder' /\ HolderKnows' /\ AnswersAreFinal'
  BY <1>1, <1>2 DEF OneHolder, HolderKnows, AnswersAreFinal, Holds
<1>5. DecisionsStand'
  BY <1>1 DEF DecisionsStand, NeedsCode
<1> QED
  BY <1>1, <1>3, <1>4, <1>5, AskersUndisturbed

\* A decision of any kind, and what it is told as.
LEMMA DecideKeeps ==
    ASSUME CommandsInv, NEW s \in Settlers, Decide(s)
    PROVE  CommandsInv'
<1> USE DEF CommandsInv
<1> DEFINE r == settler[s].id
           d == command[r]
           reply == ReplyTo(s, d)
<1>1. /\ settler[s].phase = "work"
      /\ settler' = [settler EXCEPT ![s].phase = "answer", ![s].reply = reply,
             ![s].code = IF reply = "confirm" THEN [for |-> d.case, of |-> period] ELSE NoCode]
      /\ IF reply = "resolved"
         THEN review' = [review EXCEPT ![d.case] = d.verb] /\ decided' = decided \cup {r}
         ELSE UNCHANGED <<review, decided>>
      /\ UNCHANGED <<command, request, told, period, deaths>>
  BY DEF Decide
<1>2. /\ settler \in [Settlers -> Shifts] /\ request \in [Commands -> CommandRows]
      /\ review \in [Cases -> Verbs \cup {"open"}] /\ decided \subseteq Commands
      /\ r \in Commands /\ r \notin decided
      /\ request[r].status \notin {"absent", "pending"}
  BY <1>1 DEF AdminQueueTypeOK, HolderKnows
<1>3. d \in Decisions
  <2>1. told[r] # "none"
    BY <1>2 DEF AskedInOrder
  <2> QED
    BY <1>2, <2>1 DEF AskedInOrder
<1>4. d.case \in Cases /\ d.verb \in Verbs /\ d.verb # "open"
  BY <1>3, AdminQueueAssumption DEF Decisions
<1>5. /\ reply \in Definite
      /\ reply = "resolved" =>
            /\ review[d.case] = "open"
            /\ NeedsCode(d) => d.code # NoCode /\ d.code.for = d.case
      /\ reply = "confirm" => d.case \in LargeCases
  <2>1. review[d.case] = "open" \/ review[d.case] # "open"
    OBVIOUS
  <2> QED
    BY <2>1 DEF ReplyTo, Definite, Refusals, NeedsCode, Verifies
<1> HIDE DEF reply
<1>6. /\ settler'[s].phase = "answer" /\ settler'[s].reply = reply /\ settler'[s].id = r
      /\ reply = "confirm" => settler'[s].code = [for |-> d.case, of |-> period]
      /\ settler'[s] \in Shifts /\ settler'[s].served = settler[s].served
      /\ \A t \in Settlers : t # s => settler'[t] = settler[t]
  <2> DEFINE code == IF reply = "confirm" THEN [for |-> d.case, of |-> period] ELSE NoCode
  <2>1. code \in Codes \cup {NoCode}
    BY <1>5 DEF AdminQueueTypeOK, Codes
  <2>2. settler' = [settler EXCEPT ![s].phase = "answer", ![s].reply = reply, ![s].code = code]
    BY <1>1
  <2>3. reply = "confirm" => code = [for |-> d.case, of |-> period]
    OBVIOUS
  <2>4. reply \in Replies
    BY <1>5 DEF Definite, Replies
  <2> HIDE DEF code
  <2> QED
    BY <1>2, <2>1, <2>2, <2>3, <2>4 DEF Shifts
<1>7. AdminQueueTypeOK'
  <2>1. settler' \in [Settlers -> Shifts]
    BY <1>1, <1>2, <1>6
  <2>2. review' \in [Cases -> Verbs \cup {"open"}] /\ decided' \subseteq Commands
    BY <1>1, <1>2, <1>4
  <2> QED
    BY <1>1, <2>1, <2>2 DEF AdminQueueTypeOK
<1>8. \A t \in Settlers, q \in Commands : Holds(t, q)' <=> Holds(t, q)
  BY <1>1, <1>6 DEF Holds
<1>9. OneHolder'
  BY <1>8 DEF OneHolder
<1>10. decided' = IF reply = "resolved" THEN decided \cup {r} ELSE decided
  BY <1>1
<1>11. HolderKnows'
  <2> SUFFICES ASSUME NEW t \in Settlers
               PROVE  /\ settler'[t].phase \in {"work", "answer"} =>
                           /\ settler'[t].id \in Commands
                           /\ request[settler'[t].id].status \notin {"absent", "pending"}
                           /\ settler'[t].served < BatchSize
                      /\ settler'[t].phase = "work" => settler'[t].id \notin decided'
                      /\ settler'[t].phase = "answer" =>
                           /\ settler'[t].reply \in Definite
                           /\ settler'[t].reply = "resolved" <=> settler'[t].id \in decided'
                           /\ settler'[t].reply = "confirm" =>
                                 settler'[t].code.for = command[settler'[t].id].case
    BY <1>1 DEF HolderKnows, Definite, Refusals
  <2>1. CASE t = s
    <3>1. settler[s].served < BatchSize
      BY <1>1 DEF HolderKnows
    <3> QED
      BY <1>2, <1>5, <1>6, <1>10, <2>1, <3>1
  <2>2. CASE t # s
    <3>1. settler'[t] = settler[t]
      BY <1>6, <2>2
    <3>2. settler[t].phase \in {"work", "answer"} => settler[t].id # r
      BY <1>1, <1>2, <2>2 DEF OneHolder, Holds
    <3> QED
      BY <1>10, <3>1, <3>2 DEF HolderKnows
  <2> QED
    BY <2>1, <2>2
<1>12. DecisionsStand'
  <2>1. CASE reply # "resolved"
    <3>1. UNCHANGED <<review, decided, command, request>>
      BY <1>1, <2>1
    <3> QED
      BY <3>1 DEF DecisionsStand, NeedsCode
  <2>2. CASE reply = "resolved"
    <3>1. \A q \in decided : command[q].case # d.case
      <4> SUFFICES ASSUME NEW q \in decided, command[q].case = d.case PROVE FALSE
        OBVIOUS
      <4>1. review[d.case] = command[q].verb /\ request[q].status \notin {"absent", "pending"} /\ q \in Commands
        BY <1>2 DEF DecisionsStand
      <4>2. command[q] \in Decisions
        BY <4>1 DEF AskedInOrder
      <4> QED
        BY <1>5, <2>2, <4>1, <4>2, AdminQueueAssumption DEF Decisions
    <3>2. /\ review' = [review EXCEPT ![d.case] = d.verb] /\ decided' = decided \cup {r}
          /\ UNCHANGED <<command, request>>
      BY <1>1, <2>2
    <3>3. \A q \in decided : review'[command[q].case] = command[q].verb
      BY <1>2, <1>4, <3>1, <3>2 DEF DecisionsStand
    <3>4. review'[d.case] = d.verb
      BY <1>2, <1>4, <3>2
    <3> QED
      BY <1>2, <1>5, <2>2, <3>1, <3>2, <3>3, <3>4 DEF DecisionsStand, NeedsCode
  <2> QED
    BY <2>1, <2>2
<1>13. AnswersAreFinal'
  <2> SUFFICES ASSUME NEW q \in Commands, request[q].status \in {"done", "failed", "pruned"}
               PROVE  /\ request[q].reply # "none"
                      /\ request[q].reply # "unavailable" =>
                           /\ \A t \in Settlers : ~Holds(t, q)'
                           /\ request[q].reply = "resolved" <=> q \in decided'
                           /\ request[q].reply = "confirm" => request[q].code.for = command[q].case
    BY <1>1 DEF AnswersAreFinal
  <2>1. request[q].reply # "unavailable" => q # r
    BY <1>1, <1>2 DEF AnswersAreFinal, Holds
  <2> QED
    BY <1>8, <1>10, <2>1 DEF AnswersAreFinal
<1> QED
  BY <1>1, <1>7, <1>9, <1>11, <1>12, <1>13, AskersUndisturbed

\* A decision fails and leaves nothing behind.
LEMMA FailToDecideKeeps ==
    ASSUME CommandsInv, NEW s \in Settlers, FailToDecide(s)
    PROVE  CommandsInv'
<1> USE DEF CommandsInv
<1>1. /\ settler[s].phase = "work" /\ settler \in [Settlers -> Shifts]
      /\ settler' = [settler EXCEPT ![s].phase = "answer", ![s].reply = "failed"]
      /\ UNCHANGED <<command, request, review, decided, told, period, deaths>>
  BY DEF FailToDecide, AdminQueueTypeOK
<1>2. /\ settler'[s].phase = "answer" /\ settler'[s].reply = "failed"
      /\ settler'[s].id = settler[s].id /\ settler'[s] \in Shifts
      /\ settler'[s].served = settler[s].served
      /\ \A t \in Settlers : t # s => settler'[t] = settler[t]
  BY <1>1 DEF Shifts, Replies, Refusals
<1>3. AdminQueueTypeOK'
  <2>1. settler' \in [Settlers -> Shifts]
    BY <1>1, <1>2
  <2> QED
    BY <1>1, <2>1 DEF AdminQueueTypeOK
<1>4. \A t \in Settlers, q \in Commands : Holds(t, q)' <=> Holds(t, q)
  BY <1>1, <1>2 DEF Holds
<1>5. OneHolder' /\ AnswersAreFinal'
  BY <1>1, <1>4 DEF OneHolder, AnswersAreFinal
<1>6. HolderKnows'
  BY <1>1, <1>2 DEF HolderKnows, Definite, Refusals
<1>7. DecisionsStand'
  BY <1>1 DEF DecisionsStand, NeedsCode
<1> QED
  BY <1>1, <1>3, <1>5, <1>6, <1>7, AskersUndisturbed

\* A settler writes what became of its command, or finds the row written off.
LEMMA WriteAnswerKeeps ==
    ASSUME CommandsInv, NEW s \in Settlers, WriteAnswer(s)
    PROVE  CommandsInv'
<1> USE DEF CommandsInv
<1> DEFINE r == settler[s].id
<1>1. /\ settler[s].phase = "answer"
      /\ settler' = [settler EXCEPT ![s] =
             [NewShift EXCEPT !.phase = "claim", !.served = settler[s].served + 1]]
      /\ request' = IF CanAnswer(r) THEN [request EXCEPT ![r] = AnswerOf(s)] ELSE request
      /\ UNCHANGED <<command, review, decided, told, period, deaths>>
  BY DEF WriteAnswer
<1>2. /\ settler \in [Settlers -> Shifts] /\ request \in [Commands -> CommandRows]
      /\ r \in Commands /\ settler[s].reply \in Definite
      /\ settler[s].reply = "resolved" <=> r \in decided
      /\ settler[s].reply = "confirm" => settler[s].code.for = command[r].case
  BY <1>1 DEF AdminQueueTypeOK, HolderKnows
<1>3. /\ settler'[s].phase = "claim"
      /\ \A t \in Settlers : t # s => settler'[t] = settler[t]
  BY <1>1, <1>2 DEF NewShift
<1>4. ASSUME NEW q \in Commands
      PROVE  /\ request'[q] \in CommandRows
             /\ \/ request'[q] = request[q]
                \/ /\ q = r /\ request[q].status = "processing"
                   /\ request'[q].status \in {"done", "failed"}
                   /\ request'[q].reply = settler[s].reply /\ request'[q].code = settler[s].code
  <2>1. AnswerOf(s) \in CommandRows
    BY <1>2 DEF AnswerOf, CommandRows, Shifts
  <2> QED
    BY <1>1, <1>2, <2>1 DEF CanAnswer, AnswerOf
<1>5. \A t \in Settlers, q \in Commands : Holds(t, q)' => t # s /\ Holds(t, q)
  BY <1>3 DEF Holds
<1>6. settler'[s] \in Shifts
  <2>1. settler[s].served + 1 \in 0..BatchSize
    BY <1>1, <1>2, AdminQueueAssumption DEF HolderKnows, Shifts
  <2>2. settler'[s] = [phase |-> "claim", id |-> 0, served |-> settler[s].served + 1,
                       reply |-> "none", code |-> NoCode]
    BY <1>1, <1>2 DEF NewShift
  <2>3. 0 \in 0..MaxCommands
    BY AdminQueueAssumption
  <2> QED
    BY <2>1, <2>2, <2>3 DEF Shifts
<1>7. AdminQueueTypeOK'
  <2>1. request' \in [Commands -> CommandRows]
    BY <1>1, <1>2, <1>4
  <2>2. settler' \in [Settlers -> Shifts]
    BY <1>1, <1>2, <1>3, <1>6
  <2> QED
    BY <1>1, <2>1, <2>2 DEF AdminQueueTypeOK
<1>8. OneHolder'
  BY <1>5 DEF OneHolder
<1>9. HolderKnows'
  <2> SUFFICES ASSUME NEW t \in Settlers, settler'[t].phase \in {"work", "answer"}
               PROVE  /\ settler'[t] = settler[t]
                      /\ settler[t].id \in Commands => request'[settler[t].id].status \notin {"absent", "pending"}
    BY <1>1 DEF CommandsInv, HolderKnows
  <2>1. settler'[t] = settler[t]
    BY <1>3
  <2> QED
    BY <1>4, <2>1 DEF HolderKnows
<1>10. DecisionsStand'
  BY <1>1, <1>4 DEF DecisionsStand, NeedsCode, AdminQueueTypeOK
<1>11. AnswersAreFinal'
  <2> SUFFICES ASSUME NEW q \in Commands, request'[q].status \in {"done", "failed", "pruned"}
               PROVE  /\ request'[q].reply # "none"
                      /\ request'[q].reply # "unavailable" =>
                           /\ \A t \in Settlers : ~Holds(t, q)'
                           /\ request'[q].reply = "resolved" <=> q \in decided
                           /\ request'[q].reply = "confirm" => request'[q].code.for = command[q].case
    BY <1>1 DEF AnswersAreFinal
  <2>1. CASE request'[q] = request[q]
    BY <1>5, <2>1 DEF AnswersAreFinal
  <2>2. CASE request'[q] # request[q]
    <3>1. q = r /\ request'[q].reply = settler[s].reply /\ request'[q].code = settler[s].code
      BY <1>4, <2>2
    <3>2. \A t \in Settlers : ~Holds(t, q)'
      BY <1>1, <1>5, <3>1 DEF OneHolder, Holds
    <3> QED
      BY <1>2, <3>1, <3>2 DEF Definite, Refusals
  <2> QED
    BY <2>1, <2>2
<1> QED
  BY <1>1, <1>4, <1>7, <1>8, <1>9, <1>10, <1>11, AskersUndisturbed

\* Every step of the owner and the settlers keeps the invariant.
LEMMA EveryStepKeeps == CommandsInv /\ [AdminQueueNext]_adminVars => CommandsInv'
<1> SUFFICES ASSUME CommandsInv, [AdminQueueNext]_adminVars PROVE CommandsInv'
  OBVIOUS
<1>1. ASSUME NEW r \in Commands, Ask(r) \/ Hear(r) \/ HearNothing(r) \/ ClaimLapses(r)
      PROVE  CommandsInv'
  BY <1>1, AskKeeps, HearKeeps, ClaimLapsesKeeps
<1>2. ASSUME NEW s \in Settlers, StartPass(s) \/ ClaimCommand(s) \/ FinishPass(s) \/ Die(s)
      PROVE  CommandsInv'
  BY <1>2, StartPassKeeps, ClaimCommandKeeps, LettingGoKeeps
<1>3. ASSUME NEW s \in Settlers, WorkOn(s) \/ WriteAnswer(s)
      PROVE  CommandsInv'
  BY <1>3, DecideKeeps, FailToDecideKeeps, WriteAnswerKeeps DEF WorkOn
<1>4. CASE PeriodPasses \/ UNCHANGED adminVars
  <2>1. /\ UNCHANGED <<command, request, review, decided, told, settler, deaths>>
        /\ AdminQueueTypeOK => period' \in Periods
    BY <1>4, AdminQueueAssumption DEF PeriodPasses, adminVars, Periods, AdminQueueTypeOK
  <2>2. AdminQueueTypeOK'
    BY <2>1 DEF AdminQueueTypeOK, CommandsInv
  <2>3. OneHolder' /\ HolderKnows' /\ AnswersAreFinal' /\ DecisionsStand'
    BY <2>1 DEF OneHolder, HolderKnows, AnswersAreFinal, DecisionsStand, Holds, NeedsCode, CommandsInv
  <2> QED
    BY <2>1, <2>2, <2>3, AskersUndisturbed DEF CommandsInv
<1> QED
  BY <1>1, <1>2, <1>3, <1>4 DEF AdminQueueNext

\* The invariant of the commands.
LEMMA CommandsInvHolds == AdminQueueSpec => []CommandsInv
BY NothingDecidedYet, EveryStepKeeps, PTL DEF AdminQueueSpec

-----------------------------------------------------------------------------
\* Every variable of the command queue keeps its type.
THEOREM CommandsTypeCorrect == AdminQueueSpec => []AdminQueueTypeOK
BY CommandsInvHolds, PTL DEF CommandsInv

\* What the invariant says of an answer.
LEMMA RepliesFollow == CommandsInv => RepliesAreTrue
<1> SUFFICES ASSUME CommandsInv PROVE RepliesAreTrue
  OBVIOUS
<1>1. ASSUME NEW r \in Commands, told[r] \in Definite
      PROVE  told[r] = "resolved" <=> r \in decided
  BY <1>1 DEF CommandsInv, HeardFromTheRow, AnswersAreFinal, Definite, Refusals
<1>2. \A r, q \in decided : command[r].case = command[q].case => r = q
  BY DEF CommandsInv, DecisionsStand
<1> QED
  BY <1>1, <1>2 DEF RepliesAreTrue, Definite, Refusals

\* And of a decision that needs a code.
LEMMA ConfirmationsFollow == CommandsInv => LargeCreditsConfirmed
<1> SUFFICES ASSUME CommandsInv, NEW r \in decided, NeedsCode(command[r])
             PROVE  \E q \in 1..(r - 1) : /\ told[q] = "confirm"
                                          /\ command[q].case = command[r].case
                                          /\ command[r].code.for = command[q].case
  BY DEF LargeCreditsConfirmed
<1>1. r \in Commands /\ command[r].code # NoCode /\ command[r].code.for = command[r].case
  BY DEF CommandsInv, DecisionsStand, AdminQueueTypeOK
<1> QED
  BY <1>1 DEF CommandsInv, CodesWereShown

\* What the owner reads is true, and no case is decided by two commands: client,
\* claim, decision and answer of settler/admin for any number of settlers that die,
\* outlive their leases or are written off (RepliesAreTrue).
THEOREM AnswersAreHonest == AdminQueueSpec => []RepliesAreTrue
BY RepliesFollow, CommandsInvHolds, PTL

\* A large credit was confirmed with a code the owner had read about this very case
\* (LargeCreditsConfirmed): settler/admin/twostep.py under resolve_manual_review.
THEOREM LargeCreditsAreConfirmed == AdminQueueSpec => []LargeCreditsConfirmed
BY ConfirmationsFollow, CommandsInvHolds, PTL

-----------------------------------------------------------------------------
(***************************************************************************)
(* AddressRequests                                                         *)
(*                                                                         *)
(* That no request passes its budget of attempts is the type of a row; it  *)
(* needs to know that a row that waits has an attempt left (AttemptLeft).  *)
(***************************************************************************)
AttemptLeft == \A x \in AskIds : ask[x].status = "pending" => ask[x].attempts < MaxAttempts
AtWork      == \A h \in Hands : hand[h].phase \in {"work", "raised"} => hand[h].at \in AskIds

LifecycleInv == AddressRequestsTypeOK /\ AttemptLeft /\ AtWork

\* What the statements of deriver/requests.py make of a row.
LEMMA RowMoves ==
    ASSUME NEW r \in Rows, r.status = "pending" => r.attempts < MaxAttempts
    PROVE  /\ r.status = "pending" => Claimed(r) \in Rows /\ Claimed(r).status # "pending"
           /\ \A s \in {"done", "failed"} : /\ FinishedAs(r, s) \in Rows
                                            /\ FinishedAs(r, s).status # "pending"
           /\ CanRequeue(r) => Requeued(r) \in Rows /\ Requeued(r).attempts < MaxAttempts
           /\ LeaseLapsed(r) \in Rows
           /\ LeaseLapsed(r).status = "pending" => LeaseLapsed(r).attempts < MaxAttempts
           /\ Reclaimed(r) \in Rows
           /\ Reclaimed(r).status = "pending" => Reclaimed(r).attempts < MaxAttempts
<1>1. /\ r.status \in RowStatuses /\ r.attempts \in 0..MaxAttempts /\ r.lapsed \in BOOLEAN
      /\ MaxAttempts \in Nat
  BY QueueRowAssumption DEF Rows
<1>2. r.status = "pending" => Claimed(r) \in Rows /\ Claimed(r).status # "pending"
  BY <1>1 DEF Claimed, Rows, RowStatuses
<1>3. \A s \in {"done", "failed"} : FinishedAs(r, s) \in Rows /\ FinishedAs(r, s).status # "pending"
  <2>1. FinishedAs(r, "done") \in Rows /\ FinishedAs(r, "done").status # "pending"
    BY <1>1 DEF FinishedAs, Rows, RowStatuses
  <2>2. FinishedAs(r, "failed") \in Rows /\ FinishedAs(r, "failed").status # "pending"
    BY <1>1 DEF FinishedAs, Rows, RowStatuses
  <2> QED
    BY <2>1, <2>2
<1>4. Requeued(r) \in Rows /\ Requeued(r).attempts = r.attempts
  BY <1>1 DEF Requeued, Rows, RowStatuses
<1>5. LeaseLapsed(r) \in Rows /\ LeaseLapsed(r).attempts = r.attempts /\ LeaseLapsed(r).status = r.status
  BY <1>1 DEF LeaseLapsed, Rows, RowStatuses
<1>6. /\ Reclaimed(r) \in Rows
      /\ Reclaimed(r).status = "pending" => Reclaimed(r).attempts < MaxAttempts
  <2>1. CASE ~Stale(r)
    BY <2>1 DEF Reclaimed
  <2>2. CASE Stale(r) /\ r.attempts < MaxAttempts
    BY <1>4, <2>2 DEF Reclaimed
  <2>3. CASE Stale(r) /\ ~(r.attempts < MaxAttempts)
    BY <1>3, <2>3 DEF Reclaimed
  <2> QED
    BY <2>1, <2>2, <2>3
<1> QED
  BY <1>2, <1>3, <1>4, <1>5, <1>6 DEF CanRequeue

\* A row that is new has its attempts before it.
LEMMA FreshRows ==
    /\ NoRow \in Rows /\ NewRow \in Rows /\ NoRow.status # "pending" /\ NewRow.attempts < MaxAttempts
BY QueueRowAssumption DEF NoRow, NewRow, Rows, RowStatuses

\* Served requests change an address within its type.
LEMMA HomesStay ==
    ASSUME NEW a \in Addresses, home \in [Addresses -> Homes]
    PROVE  /\ FreeHome \in Homes
           /\ \A action : After(a, action) \in Homes
           /\ [FreeHome EXCEPT !.money = home[a].money] \in Homes
BY DEF FreeHome, Homes, After

\* A deriver that starts a pass, waits or is down.
LEMMA HandsAnew ==
    /\ NewHand \in HandStates /\ NewHand.phase = "drain"
    /\ \A p \in {"wait", "down"} :
          /\ [NewHand EXCEPT !.phase = p] \in HandStates
          /\ [NewHand EXCEPT !.phase = p].phase = p
BY DEF NewHand, HandStates

\* Every address is free and nothing is asked at the start.
LEMMA LifecycleStart == AddressRequestsInit => LifecycleInv
<1> SUFFICES ASSUME AddressRequestsInit PROVE LifecycleInv
  OBVIOUS
<1>1. AddressRequestsTypeOK
  BY FreshRows, HandsAnew, AddressRequestsAssumption
  DEF AddressRequestsInit, AddressRequestsTypeOK, FreeHome, Homes
<1>2. AttemptLeft /\ AtWork
  BY FreshRows, HandsAnew DEF AddressRequestsInit, AttemptLeft, AtWork
<1> QED
  BY <1>1, <1>2 DEF LifecycleInv

\* The tenants and their money.
LEMMA OutsideKeeps ==
    ASSUME LifecycleInv, NEW a \in Addresses, MoveIn(a) \/ TenancyEnds(a) \/ MoneyMoves(a)
    PROVE  LifecycleInv'
<1>1. UNCHANGED <<ask, sweep, hand, faults>>
  BY DEF MoveIn, TenancyEnds, MoneyMoves
<1>2. home' \in [Addresses -> Homes]
  <2>1. home \in [Addresses -> Homes] /\ home[a] \in Homes
    BY DEF LifecycleInv, AddressRequestsTypeOK
  <2>2. PICK q \in Homes : home' = [home EXCEPT ![a] = q]
    <3>1. CASE MoveIn(a)
      <4>1. [home[a] EXCEPT !.status = "reserved", !.over = FALSE] \in Homes
        BY <2>1 DEF Homes
      <4> QED
        BY <3>1, <4>1 DEF MoveIn
    <3>2. CASE TenancyEnds(a)
      <4>1. [home[a] EXCEPT !.over = TRUE] \in Homes
        BY <2>1 DEF Homes
      <4> QED
        BY <3>2, <4>1 DEF TenancyEnds
    <3>3. CASE MoneyMoves(a)
      <4>1. /\ [home[a] EXCEPT !.money = "stands"] \in Homes
            /\ [home[a] EXCEPT !.money = "reverted"] \in Homes
        BY <2>1 DEF Homes
      <4> QED
        BY <3>3, <4>1 DEF MoneyMoves
    <3> QED
      BY <3>1, <3>2, <3>3
  <2> QED
    BY <2>1, <2>2
<1> QED
  BY <1>1, <1>2 DEF LifecycleInv, AddressRequestsTypeOK, AttemptLeft, AtWork

\* The settler selects, and asks.
LEMMA SweepKeeps ==
    ASSUME LifecycleInv, SweepSelects \/ SweepAsks
    PROVE  LifecycleInv'
<1>1. CASE SweepSelects
  <2>1. sweep' \subseteq AskIds /\ UNCHANGED <<home, ask, hand, faults>>
    BY <1>1 DEF SweepSelects, AskIds, Actions
  <2> QED
    BY <2>1 DEF LifecycleInv, AddressRequestsTypeOK, AttemptLeft, AtWork
<1>2. CASE SweepAsks
  <2>1. /\ ask' = [x \in AskIds |-> IF x \in sweep /\ ~Open(ask[x]) THEN NewRow ELSE ask[x]]
        /\ sweep' = {} /\ UNCHANGED <<home, hand, faults>>
    BY <1>2 DEF SweepAsks
  <2>2. ask' \in [AskIds -> Rows]
    BY <2>1, FreshRows DEF LifecycleInv, AddressRequestsTypeOK
  <2>3. AttemptLeft'
    BY <2>1, FreshRows DEF LifecycleInv, AttemptLeft
  <2> QED
    BY <2>1, <2>2, <2>3 DEF LifecycleInv, AddressRequestsTypeOK, AtWork
<1> QED
  BY <1>1, <1>2

\* What a deriver does to a row under its hands, or to none.
LEMMA OneRowKeeps ==
    ASSUME LifecycleInv, NEW x \in AskIds, NEW q \in Rows,
           q.status = "pending" => q.attempts < MaxAttempts
    PROVE  /\ [ask EXCEPT ![x] = q] \in [AskIds -> Rows]
           /\ \A y \in AskIds : [ask EXCEPT ![x] = q][y].status = "pending" =>
                                   [ask EXCEPT ![x] = q][y].attempts < MaxAttempts
BY DEF LifecycleInv, AddressRequestsTypeOK, AttemptLeft

\* What becomes of one deriver leaves the others as they are.
LEMMA OneHandKeeps ==
    ASSUME LifecycleInv, NEW h \in Hands, NEW q \in HandStates,
           q.phase \in {"work", "raised"} => q.at \in AskIds
    PROVE  /\ [hand EXCEPT ![h] = q] \in [Hands -> HandStates]
           /\ \A g \in Hands : [hand EXCEPT ![h] = q][g].phase \in {"work", "raised"} =>
                                  [hand EXCEPT ![h] = q][g].at \in AskIds
BY DEF LifecycleInv, AddressRequestsTypeOK, AtWork

\* A deriver claims, applies, fails or gives up.
LEMMA WorkKeeps ==
    ASSUME LifecycleInv, NEW h \in Hands, TakeAsk(h) \/ HandWorks(h)
    PROVE  LifecycleInv'
<1>0. /\ hand[h] \in HandStates /\ ask \in [AskIds -> Rows] /\ home \in [Addresses -> Homes]
      /\ hand \in [Hands -> HandStates] /\ faults \in 0..MaxFaults /\ sweep \subseteq AskIds
      /\ MaxFaults \in Nat
  BY AddressRequestsAssumption DEF LifecycleInv, AddressRequestsTypeOK
<1>1. hand[h].phase \in {"work", "raised"} => hand[h].at \in AskIds
  BY DEF LifecycleInv, AtWork
<1>2. \A x \in AskIds : ask[x] \in Rows /\ (ask[x].status = "pending" => ask[x].attempts < MaxAttempts)
  BY <1>0 DEF LifecycleInv, AttemptLeft
<1>3. ASSUME PutDown(h) PROVE hand' \in [Hands -> HandStates] /\ AtWork'
  <2> DEFINE q == [hand[h] EXCEPT !.phase = "drain", !.at = NoAsk]
  <2>1. q \in HandStates /\ q.phase = "drain"
    BY <1>0 DEF HandStates
  <2>2. hand' = [hand EXCEPT ![h] = q]
    BY <1>3 DEF PutDown
  <2> HIDE DEF q
  <2> QED
    BY <2>1, <2>2, OneHandKeeps DEF AtWork
<1>4. CASE TakeAsk(h)
  <2>1. PICK x \in Queued(h) :
           /\ ask' = [ask EXCEPT ![x] = Claimed(ask[x])]
           /\ hand' = [hand EXCEPT ![h] = [phase |-> "work", at |-> x, tried |-> hand[h].tried \cup {x}]]
    BY <1>4, <1>0 DEF TakeAsk, Queued
  <2>2. x \in AskIds /\ ask[x].status = "pending" /\ UNCHANGED <<home, sweep, faults>>
    BY <1>4 DEF Queued, TakeAsk
  <2>3. ask' \in [AskIds -> Rows] /\ AttemptLeft'
    BY <1>2, <2>1, <2>2, RowMoves, OneRowKeeps DEF AttemptLeft
  <2> DEFINE q == [phase |-> "work", at |-> x, tried |-> hand[h].tried \cup {x}]
  <2>4. q \in HandStates /\ q.at \in AskIds
    BY <1>0, <2>2 DEF HandStates
  <2>5. hand' \in [Hands -> HandStates] /\ AtWork'
    <3>1. hand' = [hand EXCEPT ![h] = q]
      BY <2>1
    <3> HIDE DEF q
    <3> QED
      BY <2>4, <3>1, OneHandKeeps DEF AtWork
  <2> QED
    BY <1>0, <2>2, <2>3, <2>5 DEF LifecycleInv, AddressRequestsTypeOK
<1>5. CASE Apply(h)
  <2> DEFINE x == hand[h].at
  <2>1. x \in AskIds /\ x[1] \in Addresses /\ UNCHANGED <<sweep, faults>> /\ PutDown(h)
    BY <1>1, <1>5 DEF Apply, AskIds
  <2>2. \/ UNCHANGED <<home, ask>>
        \/ /\ home' = [home EXCEPT ![x[1]] = After(x[1], x[2])]
           /\ ask' = [ask EXCEPT ![x] = FinishedAs(ask[x], "done")]
    BY <1>0, <1>5, <2>1 DEF Apply
  <2>3. ask' \in [AskIds -> Rows] /\ AttemptLeft'
    <3> HIDE DEF x
    <3>1. CASE UNCHANGED ask
      BY <1>0, <1>2, <3>1 DEF AttemptLeft
    <3>2. CASE ask' = [ask EXCEPT ![x] = FinishedAs(ask[x], "done")]
      BY <1>2, <2>1, <3>2, RowMoves, OneRowKeeps DEF AttemptLeft
    <3> QED
      BY <2>2, <3>1, <3>2
  <2>4. home' \in [Addresses -> Homes]
    <3> HIDE DEF x
    <3>1. After(x[1], x[2]) \in Homes
      BY <1>0, <2>1, HomesStay
    <3> QED
      BY <1>0, <2>1, <2>2, <3>1
  <2> QED
    BY <1>0, <1>3, <2>1, <2>3, <2>4 DEF LifecycleInv, AddressRequestsTypeOK
<1>6. CASE ApplyRaises(h)
  <2> DEFINE x == hand[h].at
             q == [hand[h] EXCEPT !.phase = "raised"]
  <2>1. x \in AskIds /\ UNCHANGED <<home, sweep>> /\ faults' \in 0..MaxFaults
    BY <1>0, <1>1, <1>6 DEF ApplyRaises
  <2>2. \/ CanRequeue(ask[x]) /\ ask' = [ask EXCEPT ![x] = Requeued(ask[x])] /\ PutDown(h)
        \/ UNCHANGED ask /\ hand' = [hand EXCEPT ![h] = q]
    BY <1>0, <1>6, <2>1 DEF ApplyRaises
  <2>3. q \in HandStates /\ q.at = x
    BY <1>0 DEF HandStates
  <2> HIDE DEF q, x
  <2>4. CASE CanRequeue(ask[x]) /\ ask' = [ask EXCEPT ![x] = Requeued(ask[x])] /\ PutDown(h)
    <3>1. ask' \in [AskIds -> Rows] /\ AttemptLeft'
      BY <1>2, <2>1, <2>4, RowMoves, OneRowKeeps DEF AttemptLeft
    <3> QED
      BY <1>0, <1>3, <2>1, <2>4, <3>1 DEF LifecycleInv, AddressRequestsTypeOK
  <2>5. CASE UNCHANGED ask /\ hand' = [hand EXCEPT ![h] = q]
    <3>1. hand' \in [Hands -> HandStates] /\ AtWork'
      BY <2>1, <2>3, <2>5, OneHandKeeps DEF AtWork
    <3>2. AttemptLeft'
      BY <1>2, <2>5 DEF AttemptLeft
    <3> QED
      BY <1>0, <2>1, <2>5, <3>1, <3>2 DEF LifecycleInv, AddressRequestsTypeOK
  <2> QED
    BY <2>2, <2>4, <2>5
<1>7. CASE GiveUpAsk(h)
  <2> DEFINE x == hand[h].at
  <2>1. x \in AskIds /\ UNCHANGED <<home, sweep, faults>> /\ PutDown(h)
    BY <1>1, <1>7 DEF GiveUpAsk
  <2>2. UNCHANGED ask \/ ask' = [ask EXCEPT ![x] = FinishedAs(ask[x], "failed")]
    BY <1>0, <1>7, <2>1 DEF GiveUpAsk
  <2> HIDE DEF x
  <2>3. ask' \in [AskIds -> Rows] /\ AttemptLeft'
    <3>1. CASE UNCHANGED ask
      BY <1>0, <1>2, <3>1 DEF AttemptLeft
    <3>2. CASE ask' = [ask EXCEPT ![x] = FinishedAs(ask[x], "failed")]
      BY <1>2, <2>1, <3>2, RowMoves, OneRowKeeps DEF AttemptLeft
    <3> QED
      BY <2>2, <3>1, <3>2
  <2> QED
    BY <1>0, <1>3, <2>1, <2>3 DEF LifecycleInv, AddressRequestsTypeOK
<1> QED
  BY <1>4, <1>5, <1>6, <1>7 DEF HandWorks

\* A deriver waits, is woken, keeps house or dies.
LEMMA LoopKeeps ==
    ASSUME LifecycleInv, NEW h \in Hands,
           DrainDone(h) \/ WokenUp(h) \/ KeepHouse(h) \/ HandDies(h)
    PROVE  LifecycleInv'
<1>0. ask \in [AskIds -> Rows] /\ home \in [Addresses -> Homes] /\ faults \in 0..MaxFaults
      /\ MaxFaults \in Nat /\ hand \in [Hands -> HandStates] /\ sweep \subseteq AskIds
  BY AddressRequestsAssumption DEF LifecycleInv, AddressRequestsTypeOK
<1>1. sweep' = sweep /\ faults' \in 0..MaxFaults
  BY <1>0 DEF DrainDone, WokenUp, KeepHouse, HandDies
<1>2. PICK q \in HandStates : q.phase \in {"drain", "wait", "down"} /\ hand' = [hand EXCEPT ![h] = q]
  <2>1. \E q \in {NewHand, [NewHand EXCEPT !.phase = "wait"], [NewHand EXCEPT !.phase = "down"]} :
           hand' = [hand EXCEPT ![h] = q]
    BY <1>0 DEF DrainDone, WokenUp, KeepHouse, HandDies
  <2> QED
    BY <2>1, HandsAnew
<1>3. hand' \in [Hands -> HandStates] /\ AtWork'
  BY <1>2, OneHandKeeps DEF AtWork
<1>4. ask' \in [AskIds -> Rows] /\ AttemptLeft'
  <2>1. CASE UNCHANGED ask
    BY <1>0, <2>1 DEF LifecycleInv, AttemptLeft
  <2>2. CASE ask' = [x \in AskIds |-> IF Finished(ask[x]) THEN ask[x] ELSE Reclaimed(ask[x])]
    <3>1. \A x \in AskIds : /\ ask[x] \in Rows /\ Reclaimed(ask[x]) \in Rows
                            /\ ask[x].status = "pending" => ask[x].attempts < MaxAttempts
                            /\ Reclaimed(ask[x]).status = "pending" =>
                                  Reclaimed(ask[x]).attempts < MaxAttempts
      BY <1>0, RowMoves DEF LifecycleInv, AttemptLeft
    <3>2. \A x \in AskIds : ask'[x] = ask[x] \/ ask'[x] = Reclaimed(ask[x])
      BY <2>2
    <3>3. DOMAIN ask' = AskIds /\ ask' = [x \in AskIds |-> ask'[x]]
      BY <2>2
    <3> QED
      BY <3>1, <3>2, <3>3 DEF AttemptLeft
  <2> QED
    BY <2>1, <2>2 DEF DrainDone, WokenUp, KeepHouse, HandDies
<1>5. home' \in [Addresses -> Homes]
  <2>1. CASE UNCHANGED home
    BY <1>0, <2>1
  <2>2. CASE home' = [a \in Addresses |->
               IF Due(a) THEN [FreeHome EXCEPT !.money = home[a].money] ELSE home[a]]
    BY <1>0, <2>2, HomesStay
  <2> QED
    BY <2>1, <2>2 DEF DrainDone, WokenUp, KeepHouse, HandDies
<1> QED
  BY <1>0, <1>1, <1>3, <1>4, <1>5 DEF LifecycleInv, AddressRequestsTypeOK

\* A lease runs out.
LEMMA LapseKeeps ==
    ASSUME LifecycleInv, NEW x \in AskIds, AskLapses(x)
    PROVE  LifecycleInv'
<1>1. /\ ask' = [ask EXCEPT ![x] = LeaseLapsed(ask[x])] /\ UNCHANGED <<home, sweep, hand>>
      /\ faults' \in 0..MaxFaults
  BY AddressRequestsAssumption DEF AskLapses, LifecycleInv, AddressRequestsTypeOK
<1>2. ask[x] \in Rows /\ (ask[x].status = "pending" => ask[x].attempts < MaxAttempts)
  BY DEF LifecycleInv, AddressRequestsTypeOK, AttemptLeft
<1>3. ask' \in [AskIds -> Rows] /\ AttemptLeft'
  BY <1>1, <1>2, RowMoves, OneRowKeeps DEF AttemptLeft
<1> QED
  BY <1>1, <1>3 DEF LifecycleInv, AddressRequestsTypeOK, AtWork

\* Every step of the tenants, the settler and the derivers keeps the invariant.
LEMMA LifecycleStep ==
    LifecycleInv /\ [AddressRequestsNext]_lifecycleVars => LifecycleInv'
<1>1. ASSUME LifecycleInv, UNCHANGED lifecycleVars PROVE LifecycleInv'
  BY <1>1 DEF lifecycleVars, LifecycleInv, AddressRequestsTypeOK, AttemptLeft, AtWork
<1> QED
  BY <1>1, OutsideKeeps, SweepKeeps, WorkKeeps, LoopKeeps, LapseKeeps DEF AddressRequestsNext

\* The requests about addresses keep their types, and none passes its budget of
\* attempts (deriver/requests.py, serve_one_address_request), whoever dies.
THEOREM LifecycleTypeCorrect == AddressRequestsSpec => []AddressRequestsTypeOK
<1>1. LifecycleInv => AddressRequestsTypeOK
  BY DEF LifecycleInv
<1> QED
  BY <1>1, LifecycleStart, LifecycleStep, PTL DEF AddressRequestsSpec

-----------------------------------------------------------------------------
(***************************************************************************)
(* Both                                                                    *)
(***************************************************************************)
BothInv == CommandsInv /\ LifecycleInv

\* Both tables start empty.
LEMMA BothStart == RequestsInit => BothInv
BY NothingDecidedYet, LifecycleStart DEF RequestsInit, BothInv

\* A step of one table is none of the other.
LEMMA BothStep == BothInv /\ [RequestsNext]_tableVars => BothInv'
<1>1. [RequestsNext]_tableVars => [AdminQueueNext]_adminVars /\ [AddressRequestsNext]_lifecycleVars
  BY DEF RequestsNext, tableVars
<1> QED
  BY <1>1, EveryStepKeeps, LifecycleStep DEF BothInv

\* The two tables side by side, as the run has them: both keep their types and
\* their budgets of attempts (RequestsTypeOK), and every answer is as true as alone.
THEOREM RequestsAreSafe ==
    RequestsSpec => [](RequestsTypeOK /\ RepliesAreTrue /\ LargeCreditsConfirmed)
<1>1. BothInv => RequestsTypeOK
  BY DEF BothInv, CommandsInv, LifecycleInv, RequestsTypeOK
<1>2. BothInv => RepliesAreTrue /\ LargeCreditsConfirmed
  BY RepliesFollow, ConfirmationsFollow DEF BothInv
<1> QED
  BY <1>1, <1>2, BothStart, BothStep, PTL DEF RequestsSpec
=============================================================================
