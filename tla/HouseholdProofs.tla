--------------------------- MODULE HouseholdProofs ---------------------------
(***************************************************************************)
(* Proofs about what a household shares, for any people, doors, processes, *)
(* consults, peers and bounds.                                             *)
(***************************************************************************)
EXTENDS MCHousehold, SequenceTheorems, NaturalsInduction, WellFoundedInduction, TLAPS

-----------------------------------------------------------------------------
(* The one mind.  A consult that no other process and no stray disturbs    *)
(* has the two files to itself from its prompt to its answer, since the    *)
(* slot keeps the others of its process out.                               *)

Holds(c) == call[c].at \in {"holding", "running"}

\* The slot is taken by one consult, or free.
OneHolds ==
    /\ \A c, d \in Calls :
          Holds(c) /\ Holds(d) /\ call[c].process = call[d].process => c = d
    /\ \A c \in Calls : Holds(c) => slot[call[c].process]
    /\ \A p \in Processes :
          slot[p] => \E c \in Calls : Holds(c) /\ call[c].process = p

\* An adapter is there once its consult runs, and is over with it, unless it
\* strayed; and only what is over has an outcome.
AdapterFollows ==
    \A c \in Calls :
        /\ call[c].at # "over" => call[c].outcome = "none"
        /\ call[c].at \in {"unmade", "waiting", "holding"} => adapter[c] = Con!NoAdapter
        /\ call[c].at = "over" =>
              adapter[c].at \in {"none", "over"} \/ adapter[c].shell = "killed"
        /\ adapter[c].shell \in {"ok", "limited", "failed"} => adapter[c].at = "over"

Undisturbed(c) ==
    \A d \in Calls \ {c} :
        /\ adapter[d].shell # "killed"
        /\ call[d].at = "unmade" \/ call[d].process = call[c].process

\* The files are those of the consult that runs undisturbed.
FilesAreIts ==
    \A c \in Calls : call[c].at = "running" /\ Undisturbed(c) =>
        /\ prompt = c
        /\ adapter[c].at \in {"thinking", "over"} => adapter[c].read = c
        /\ adapter[c].shell = "ok" => response = c

ConsultInv ==
    /\ Con!ConsultTypeOK /\ OneHolds /\ AdapterFollows /\ FilesAreIts
    /\ CrossedOnlyByStrays

LEMMA ConsultInitInv == Con!ConsultInit => ConsultInv
<1> SUFFICES ASSUME Con!ConsultInit PROVE ConsultInv
  OBVIOUS
<1> USE DEF Con!ConsultInit
<1>1. Con!Unmade.process \in Processes /\ Con!Unmade.at = "unmade"
      /\ Con!Unmade.outcome = "none" /\ Con!Unmade.got = None
  BY HouseholdAssumption DEF Con!ConsultAssumption, Con!Unmade
<1>2. Con!ConsultTypeOK
  BY <1>1 DEF Con!ConsultTypeOK, Con!Unmade, Con!NoAdapter, Con!Outcomes
<1>3. OneHolds /\ AdapterFollows /\ FilesAreIts /\ CrossedOnlyByStrays
  BY <1>1 DEF OneHolds, Holds, AdapterFollows, FilesAreIts, CrossedOnlyByStrays,
     Con!CrossedOnlyByStrays, Con!NoAdapter
<1> QED BY <1>2, <1>3 DEF ConsultInv

\* One consult asks, takes the slot or is written for.
LEMMA AskKeeps ==
    ASSUME ConsultInv, NEW c \in Calls, NEW p \in Processes, Con!Ask(c, p)
    PROVE  ConsultInv'
<1> USE DEF ConsultInv, Con!ConsultTypeOK
<1>1. /\ call[c].at = "unmade" /\ UNCHANGED <<slot, prompt, response, adapter>>
      /\ call' = [call EXCEPT ![c] = [@ EXCEPT !.at = "waiting", !.process = p]]
  BY DEF Con!Ask
<1>2. /\ call'[c].at = "waiting" /\ call'[c].outcome = call[c].outcome
      /\ call'[c].got = call[c].got
      /\ call'[c].process = p
      /\ \A d \in Calls \ {c} : call'[d] = call[d]
  BY <1>1
<1>3. Con!ConsultTypeOK'
  <2>1. call'[c] \in [at: {"unmade", "waiting", "holding", "running", "over"},
                      process: Processes, outcome: Con!Outcomes, got: Calls \cup {None}]
    BY <1>1
  <2>2. call' \in [Calls -> [at: {"unmade", "waiting", "holding", "running", "over"},
                      process: Processes, outcome: Con!Outcomes, got: Calls \cup {None}]]
    BY <1>1, <2>1
  <2> QED BY <1>1, <2>2
<1>4. OneHolds' BY <1>1, <1>2 DEF OneHolds, Holds
<1>5. AdapterFollows' BY <1>1, <1>2 DEF AdapterFollows
<1>6. ASSUME NEW d \in Calls, call'[d].at = "running", Undisturbed(d)'
      PROVE  call[d].at = "running" /\ Undisturbed(d)
  BY <1>1, <1>2, <1>6 DEF Undisturbed
<1>7. FilesAreIts' BY <1>1, <1>6 DEF FilesAreIts
<1>8. CrossedOnlyByStrays'
  BY <1>1, <1>2 DEF CrossedOnlyByStrays, Con!CrossedOnlyByStrays, Con!Strayed, AdapterFollows
<1> QED BY <1>3, <1>4, <1>5, <1>7, <1>8

LEMMA AcquireKeeps ==
    ASSUME ConsultInv, NEW c \in Calls, Con!Acquire(c)
    PROVE  ConsultInv'
<1> USE DEF ConsultInv, Con!ConsultTypeOK
<1>1. /\ call[c].at = "waiting" /\ UNCHANGED <<prompt, response, adapter>>
      /\ call' = [call EXCEPT ![c].at = "holding"] /\ ~slot[call[c].process]
      /\ slot' = [slot EXCEPT ![call[c].process] = TRUE]
  BY DEF Con!Acquire, Con!MayTake
<1>2. /\ call'[c].at = "holding" /\ call'[c].outcome = call[c].outcome
      /\ call'[c].got = call[c].got /\ call'[c].process = call[c].process
      /\ \A d \in Calls \ {c} : call'[d] = call[d]
  BY <1>1
<1>3. Con!ConsultTypeOK' BY <1>1
<1>4. OneHolds' BY <1>1, <1>2 DEF OneHolds, Holds
<1>5. AdapterFollows' BY <1>1, <1>2 DEF AdapterFollows
<1>6. ASSUME NEW d \in Calls, call'[d].at = "running", Undisturbed(d)'
      PROVE  call[d].at = "running" /\ Undisturbed(d)
  BY <1>1, <1>2, <1>6 DEF Undisturbed
<1>7. FilesAreIts' BY <1>1, <1>6 DEF FilesAreIts
<1>8. CrossedOnlyByStrays'
  BY <1>1, <1>2 DEF CrossedOnlyByStrays, Con!CrossedOnlyByStrays, Con!Strayed, AdapterFollows
<1> QED BY <1>3, <1>4, <1>5, <1>7, <1>8

LEMMA SpawnKeeps ==
    ASSUME ConsultInv, NEW c \in Calls, Con!Spawn(c)
    PROVE  ConsultInv'
<1> USE DEF ConsultInv, Con!ConsultTypeOK
<1>1. /\ call[c].at = "holding" /\ UNCHANGED <<slot, response>> /\ prompt' = c
      /\ call' = [call EXCEPT ![c].at = "running"]
      /\ adapter' = [adapter EXCEPT ![c] = [@ EXCEPT !.at = "starting", !.shell = "alive"]]
  BY DEF Con!Spawn
<1>2. /\ call'[c].at = "running" /\ call'[c].outcome = call[c].outcome
      /\ call'[c].got = call[c].got /\ call'[c].process = call[c].process
      /\ \A d \in Calls \ {c} : call'[d] = call[d] /\ adapter'[d] = adapter[d]
      /\ adapter'[c].at = "starting" /\ adapter'[c].shell = "alive"
      /\ adapter[c].shell = "none"
  BY <1>1 DEF AdapterFollows, Con!NoAdapter
<1>3. Con!ConsultTypeOK'
  <2>1. adapter'[c] \in [at: {"none", "starting", "thinking", "over"}, read: Calls \cup {None},
                        shell: {"none", "alive", "killed", "ok", "limited", "failed"}]
    BY <1>1
  <2> QED BY <1>1, <2>1
<1>4. OneHolds' BY <1>1, <1>2 DEF OneHolds, Holds
<1>5. AdapterFollows' BY <1>1, <1>2 DEF AdapterFollows
<1>6. ASSUME NEW d \in Calls \ {c}, call'[d].at = "running" PROVE ~Undisturbed(d)'
  BY <1>1, <1>2, <1>6 DEF Undisturbed, OneHolds, Holds
<1>7. FilesAreIts' BY <1>1, <1>2, <1>6 DEF FilesAreIts
<1>8. CrossedOnlyByStrays'
  BY <1>1, <1>2 DEF CrossedOnlyByStrays, Con!CrossedOnlyByStrays, Con!Strayed, AdapterFollows
<1> QED BY <1>3, <1>4, <1>5, <1>7, <1>8

\* A consult that runs undisturbed has the only adapter that is at work.
LEMMA OnlyItsAdapterWorks ==
    ASSUME ConsultInv, NEW c \in Calls, NEW d \in Calls, c # d,
           call[d].at = "running", Undisturbed(d)
    PROVE  adapter[c].at \in {"none", "over"}
<1>1. adapter[c].shell # "killed"
      /\ (call[c].at = "unmade" \/ call[c].process = call[d].process)
  BY DEF Undisturbed
<1>2. call[c].at \in {"unmade", "waiting", "over"}
  BY <1>1 DEF ConsultInv, OneHolds, Holds, Con!ConsultTypeOK
<1> QED BY <1>1, <1>2 DEF ConsultInv, AdapterFollows, Con!NoAdapter

\* What an adapter does by itself.
LEMMA AdapterKeeps ==
    ASSUME ConsultInv, NEW c \in Calls,
           \/ Con!Reads(c) \/ Con!Answers(c) \/ \E code \in {"limited", "failed"} : Con!Fails(c, code)
    PROVE  ConsultInv'
<1> USE DEF ConsultInv, Con!ConsultTypeOK
<1>1. UNCHANGED <<call, slot, prompt>> /\ adapter[c].at \in {"starting", "thinking"}
  BY DEF Con!Reads, Con!Answers, Con!Fails
<1>2. /\ adapter' \in [Calls -> [at: {"none", "starting", "thinking", "over"},
                              read: Calls \cup {None},
                              shell: {"none", "alive", "killed", "ok", "limited", "failed"}]]
      /\ \A d \in Calls \ {c} : adapter'[d] = adapter[d]
  <2>1. CASE Con!Reads(c) BY <2>1 DEF Con!Reads
  <2>2. CASE Con!Answers(c) BY <2>2 DEF Con!Answers, Con!ShellAfter
  <2>3. ASSUME NEW code \in {"limited", "failed"}, Con!Fails(c, code)
        PROVE  /\ adapter' \in [Calls -> [at: {"none", "starting", "thinking", "over"},
                              read: Calls \cup {None},
                              shell: {"none", "alive", "killed", "ok", "limited", "failed"}]]
               /\ \A d \in Calls \ {c} : adapter'[d] = adapter[d]
    <3>1. Con!ShellAfter(c, code)
            \in {"none", "alive", "killed", "ok", "limited", "failed"}
      BY DEF Con!ShellAfter
    <3> QED BY <2>3, <3>1 DEF Con!Fails
  <2> QED BY <2>1, <2>2, <2>3
<1>3. \/ /\ adapter[c].at = "starting" /\ adapter'[c].at = "thinking" /\ adapter'[c].read = prompt
         /\ adapter'[c].shell = adapter[c].shell /\ response' = response
      \/ /\ adapter[c].at = "thinking" /\ adapter'[c].at = "over" /\ adapter'[c].read = adapter[c].read
         /\ adapter'[c].shell = "killed" <=> adapter[c].shell = "killed"
         /\ \/ response' = adapter[c].read
            \/ response' = response /\ (adapter'[c].shell = "ok" => adapter[c].shell = "ok")
  <2>1. CASE Con!Reads(c) BY <2>1 DEF Con!Reads
  <2>2. CASE Con!Answers(c) BY <2>2 DEF Con!Answers, Con!ShellAfter
  <2>3. ASSUME NEW code \in {"limited", "failed"}, Con!Fails(c, code)
        PROVE  /\ adapter[c].at = "thinking" /\ adapter'[c].at = "over" /\ adapter'[c].read = adapter[c].read
               /\ adapter'[c].shell = "killed" <=> adapter[c].shell = "killed"
               /\ response' = response /\ (adapter'[c].shell = "ok" => adapter[c].shell = "ok")
    <3>1. adapter'[c] = [adapter[c] EXCEPT !.at = "over", !.shell = Con!ShellAfter(c, code)]
          /\ adapter[c].at = "thinking" /\ response' = response
      BY <2>3 DEF Con!Fails
    <3>2. adapter'[c].shell = Con!ShellAfter(c, code) /\ adapter'[c].at = "over"
          /\ adapter'[c].read = adapter[c].read
      BY <3>1
    <3> QED BY <3>1, <3>2 DEF Con!ShellAfter
  <2> QED BY <2>1, <2>2, <2>3
<1>4. response' \in Calls \cup {None} BY <1>3
<1>5. Con!ConsultTypeOK' BY <1>1, <1>2, <1>4
<1>6. OneHolds' BY <1>1 DEF OneHolds, Holds
<1>7. AdapterFollows' BY <1>1, <1>2, <1>3 DEF AdapterFollows, Con!NoAdapter
<1>8. \A d \in Calls : Undisturbed(d)' => Undisturbed(d)
  BY <1>1, <1>2, <1>3 DEF Undisturbed
<1>9. ASSUME NEW d \in Calls, call[d].at = "running", Undisturbed(d)
      PROVE  /\ prompt' = d
             /\ adapter'[d].at \in {"thinking", "over"} => adapter'[d].read = d
             /\ adapter'[d].shell = "ok" => response' = d
  <2>1. CASE d = c BY <1>1, <1>3, <1>9, <2>1 DEF FilesAreIts, AdapterFollows
  <2>2. CASE d # c
    <3>1. adapter[c].at \in {"none", "over"} BY <1>9, <2>2, OnlyItsAdapterWorks
    <3> QED BY <1>1, <3>1
  <2> QED BY <2>1, <2>2
<1>10. FilesAreIts' BY <1>1, <1>8, <1>9 DEF FilesAreIts
<1>11. CrossedOnlyByStrays'
  BY <1>1, <1>2, <1>3 DEF CrossedOnlyByStrays, Con!CrossedOnlyByStrays, Con!Strayed
<1> QED BY <1>5, <1>6, <1>7, <1>10, <1>11

\* The guard is dropped on every way out; what is handed over is its own
\* where nobody disturbed it.
LEMMA EndKeeps ==
    ASSUME ConsultInv, NEW c \in Calls, Holds(c),
           NEW outcome \in Con!Outcomes, NEW got \in Calls \cup {None},
           Con!Ends(c, outcome, got), UNCHANGED <<prompt, response>>,
           outcome = "response" /\ Undisturbed(c) => got = c,
           \/ /\ UNCHANGED adapter
              /\ adapter[c].at \in {"none", "over"}
           \/ Con!Kills(c)
    PROVE  ConsultInv'
<1> USE DEF ConsultInv, Con!ConsultTypeOK
<1>1. /\ call' = [call EXCEPT ![c] = [@ EXCEPT !.at = "over", !.outcome = outcome, !.got = got]]
      /\ slot' = [slot EXCEPT ![call[c].process] = FALSE]
  BY DEF Con!Ends
<1>2. /\ call'[c].at = "over" /\ call'[c].outcome = outcome
      /\ call'[c].got = got /\ call'[c].process = call[c].process
      /\ \A d \in Calls \ {c} : call'[d] = call[d]
  BY <1>1
<1>3. /\ adapter' \in [Calls -> [at: {"none", "starting", "thinking", "over"},
                              read: Calls \cup {None},
                              shell: {"none", "alive", "killed", "ok", "limited", "failed"}]]
      /\ \A d \in Calls \ {c} : adapter'[d] = adapter[d]
      /\ \/ adapter'[c] = adapter[c] /\ adapter[c].at \in {"none", "over"}
         \/ adapter'[c].shell = "killed"
  <2>1. CASE UNCHANGED adapter /\ adapter[c].at \in {"none", "over"} BY <2>1
  <2>2. CASE adapter' = [adapter EXCEPT ![c].shell = "killed"] BY <2>2
  <2>3. CASE adapter' = [adapter EXCEPT ![c] = [@ EXCEPT !.at = "over", !.shell = "killed"]]
    BY <2>3
  <2> QED BY <2>1, <2>2, <2>3 DEF Con!Kills
<1>4. Con!ConsultTypeOK'
  <2>1. call'[c] \in [at: {"unmade", "waiting", "holding", "running", "over"},
                      process: Processes, outcome: Con!Outcomes, got: Calls \cup {None}]
    BY <1>1
  <2>2. call' \in [Calls -> [at: {"unmade", "waiting", "holding", "running", "over"},
                      process: Processes, outcome: Con!Outcomes, got: Calls \cup {None}]]
    BY <1>1, <2>1
  <2> QED BY <1>1, <1>3, <2>2
<1>5. OneHolds' BY <1>1, <1>2 DEF OneHolds, Holds
<1>6. AdapterFollows' BY <1>1, <1>2, <1>3 DEF AdapterFollows
<1>7. ASSUME NEW d \in Calls, d # c, Undisturbed(d)'
      PROVE  Undisturbed(d)
  <2>1. adapter[c].shell # "killed" \/ adapter'[c].shell = "killed" BY <1>3
  <2> QED BY <1>2, <1>3, <1>7, <2>1 DEF Undisturbed, Holds
<1>8. FilesAreIts' BY <1>2, <1>3, <1>7 DEF FilesAreIts
<1>9. Undisturbed(c) \/ \E d \in Calls \ {c} :
          adapter[d].shell = "killed"
          \/ (call[d].at # "unmade" /\ call[d].process # call[c].process)
  BY DEF Undisturbed
<1>10. ASSUME NEW x \in Calls, call'[x].outcome = "response", call'[x].got # x
       PROVE  \E d \in Calls \ {x} :
                 \/ adapter'[d].shell = "killed"
                 \/ call'[d].at # "unmade" /\ call'[d].process # call'[x].process
  <2>1. \E d \in Calls \ {x} :
            \/ adapter[d].shell = "killed"
            \/ call[d].at # "unmade" /\ call[d].process # call[x].process
    <3>1. CASE x = c BY <1>2, <1>9, <1>10, <3>1
    <3>2. CASE x # c
      BY <1>2, <1>10, <3>2 DEF CrossedOnlyByStrays, Con!CrossedOnlyByStrays, Con!Strayed
    <3> QED BY <3>1, <3>2
  <2>2. /\ adapter[c].shell = "killed" => adapter'[c].shell = "killed"
        /\ call[c].at # "unmade" /\ call'[c].at # "unmade"
        /\ call'[x].process = call[x].process
    BY <1>2, <1>3 DEF Holds
  <2> QED BY <1>2, <1>3, <2>1, <2>2
<1>11. CrossedOnlyByStrays'
  BY <1>10, Zenon DEF CrossedOnlyByStrays, Con!CrossedOnlyByStrays, Con!Strayed
<1> QED BY <1>4, <1>5, <1>6, <1>8, <1>11

LEMMA ConsultNextKeeps ==
    ASSUME ConsultInv, [Con!ConsultNext]_consults
    PROVE  ConsultInv'
<1>1. CASE UNCHANGED consults
  BY <1>1 DEF consults, ConsultInv, Con!ConsultTypeOK, OneHolds, Holds, AdapterFollows,
     FilesAreIts, Undisturbed, CrossedOnlyByStrays, Con!CrossedOnlyByStrays, Con!Strayed
<1>2. ASSUME NEW c \in Calls, Con!Refuse(c) PROVE ConsultInv'
  <2>1. Holds(c) /\ Con!Ends(c, "refused", None) /\ UNCHANGED <<prompt, response, adapter>>
        /\ adapter[c].at = "none"
    BY <1>2 DEF Con!Refuse, Holds, ConsultInv, AdapterFollows, Con!NoAdapter
  <2> QED BY <2>1, EndKeeps DEF Con!Outcomes
<1>3. ASSUME NEW c \in Calls, Con!Return(c) PROVE ConsultInv'
  <2>1. PICK outcome \in {"response", "limited", "refused"}, got \in {response, None} :
            /\ Con!Ends(c, outcome, got)
            /\ outcome = "response" => adapter[c].shell = "ok" /\ got = response
    BY <1>3 DEF Con!Return
  <2>2. /\ Holds(c) /\ call[c].at = "running" /\ UNCHANGED <<prompt, response, adapter>>
        /\ adapter[c].at = "over" /\ response \in Calls \cup {None}
    BY <1>3 DEF Con!Return, Holds, ConsultInv, AdapterFollows, Con!ConsultTypeOK
  <2>3. outcome = "response" /\ Undisturbed(c) => got = c
    BY <2>1, <2>2 DEF ConsultInv, FilesAreIts
  <2>4. outcome \in Con!Outcomes /\ got \in Calls \cup {None} BY <2>2 DEF Con!Outcomes
  <2> QED BY <2>1, <2>2, <2>3, <2>4, EndKeeps
<1>4. ASSUME NEW c \in Calls, Con!Deadline(c) \/ Con!StepAside(c) PROVE ConsultInv'
  <2>1. PICK outcome \in {"refused", "yielded"} :
            Holds(c) /\ Con!Ends(c, outcome, None) /\ UNCHANGED <<prompt, response>>
            /\ Con!Kills(c)
    BY <1>4 DEF Con!Deadline, Con!StepAside, Holds
  <2> QED BY <2>1, EndKeeps DEF Con!Outcomes
<1> QED BY <1>1, <1>2, <1>3, <1>4, AskKeeps, AcquireKeeps, SpawnKeeps, AdapterKeeps
        DEF Con!ConsultNext

LEMMA OneHoldsSlot == ConsultInv => Con!SlotIsHeld
BY DEF ConsultInv, OneHolds, Holds, Con!SlotIsHeld, Con!Holders, Con!ConsultTypeOK

\* Words cross only where the lane does not reach: between processes, or from
\* the python of a killed adapter (llm/src/lib.rs, consult_in).
THEOREM WordsStayWithTheirs == Con!ConsultSpec => []CrossedOnlyByStrays
<1>1. ConsultInv /\ [Con!ConsultNext]_(Con!vars) => ConsultInv'
  BY ConsultNextKeeps DEF Con!vars, consults
<1>2. ConsultInv => CrossedOnlyByStrays BY DEF ConsultInv
<1> QED BY <1>1, <1>2, ConsultInitInv, PTL DEF Con!ConsultSpec

\* No way out of a consult leaves the lane shut, none opens it under another's
\* consult (llm/src/lib.rs, Lane).
THEOREM OneConsultAtATime == Con!ConsultSpec => []Con!SlotIsHeld
<1>1. ConsultInv /\ [Con!ConsultNext]_(Con!vars) => ConsultInv'
  BY ConsultNextKeeps DEF Con!vars, consults
<1> QED BY <1>1, OneHoldsSlot, ConsultInitInv, PTL DEF Con!ConsultSpec

-----------------------------------------------------------------------------
(* Decisions carried by briefs.  Who is denied is not pending any more, and *)
(* nobody becomes pending, so that no poll and no peer's yes lets them in.  *)

DeniedIsNotPending == \A n \in pending : deniedAt[n] = None

\* Peers send decisions, and the hub sends needs.
BriefsCarry ==
    /\ \A p \in Peers : outbox[p] \subseteq Bri!Grant
    /\ sent \in [Peers -> (SUBSET Bri!Grant) \cup {None}]
    /\ outbox[Hub] \subseteq Bri!Need

BriefsInv == Bri!BriefsTypeOK /\ DeniedIsNotPending /\ BriefsCarry

LEMMA BriefsInitInv == Bri!Init => BriefsInv
<1> SUFFICES ASSUME Bri!Init PROVE BriefsInv
  OBVIOUS
<1>1. Bri!BriefsTypeOK /\ DeniedIsNotPending
  BY HouseholdAssumption
     DEF Bri!Init, Bri!BriefsTypeOK, DeniedIsNotPending, Bri!BriefsAssumption
<1>2. sent \in [Peers -> (SUBSET Bri!Grant) \cup {None}]
  BY DEF Bri!Init
<1>3. \A n \in Bri!Nodes : outbox[n] = {} BY DEF Bri!Init
<1>4. BriefsCarry BY <1>2, <1>3 DEF BriefsCarry, Bri!Nodes
<1> QED BY <1>1, <1>4 DEF BriefsInv

\* What is said and decided at the hub itself.
LEMMA AtHubKeeps == BriefsInv /\ Bri!AtHub => BriefsInv'
<1> SUFFICES ASSUME BriefsInv, Bri!AtHub PROVE BriefsInv'
  OBVIOUS
<1> USE DEF BriefsInv, Bri!BriefsTypeOK, DeniedIsNotPending
<1>1. /\ actsOfPeople' \in 0..MaxDone
      /\ UNCHANGED <<decided, todo, surfaced, given, outbox, inbox, sent, now>>
  BY HouseholdAssumption DEF Bri!AtHub, Bri!OpenGate, Bri!AskQuestion, Bri!Knock, Bri!Poll,
     Bri!DenyHere, Bri!Act, Bri!people, Bri!mail, Bri!BriefsAssumption
<1>2. BriefsCarry' BY <1>1 DEF BriefsCarry
<1>3. CASE Bri!OpenGate \/ Bri!AskQuestion
  BY <1>1, <1>2, <1>3 DEF Bri!OpenGate, Bri!AskQuestion
<1>4. ASSUME NEW n \in Newcomers, Bri!Knock(n) \/ Bri!Poll(n) \/ Bri!DenyHere(n)
      PROVE  BriefsInv'
  <2>1. /\ gate' = gate /\ question' = question
        /\ pending' = pending \ {n}
        /\ granted' \in {granted, granted \cup {n}}
        /\ \E at \in {None, now, deniedAt[n]} : deniedAt' = [deniedAt EXCEPT ![n] = at]
    BY <1>4 DEF Bri!Knock, Bri!Poll, Bri!DenyHere, Bri!Admit, Bri!Deny
  <2>2. deniedAt' \in [Newcomers -> 0..MaxTime \cup {None}]
        /\ \A x \in Newcomers \ {n} : deniedAt'[x] = deniedAt[x]
    BY <2>1
  <2> QED BY <1>1, <1>2, <2>1, <2>2
<1> QED BY <1>3, <1>4 DEF Bri!AtHub

\* What decisions that came in a brief do.
LEMMA CarryKeeps ==
    ASSUME BriefsInv, NEW G \in SUBSET Bri!Grant, Bri!Carry(G)
    PROVE  /\ gate' \in BOOLEAN /\ question' \in Things \cup {None}
           /\ pending' \subseteq Newcomers /\ granted' \subseteq Newcomers
           /\ deniedAt' \in [Newcomers -> 0..MaxTime \cup {None}]
           /\ DeniedIsNotPending'
           /\ granted' \ granted \subseteq pending
<1> USE DEF BriefsInv, Bri!BriefsTypeOK, DeniedIsNotPending
<1>1. gate' \in BOOLEAN /\ question' \in Things \cup {None}
  BY DEF Bri!Carry
<1>2. /\ pending' = pending \ (Bri!Refs(G, TRUE) \cup Bri!Refs(G, FALSE))
      /\ granted' = granted \cup (Bri!Refs(G, TRUE) \cap pending)
      /\ deniedAt' = [n \in Newcomers |->
                       IF n \in Bri!Refs(G, FALSE) THEN now ELSE deniedAt[n]]
  BY DEF Bri!Carry
<1> QED BY <1>1, <1>2

LEMMA MergeKeeps ==
    ASSUME BriefsInv, NEW p \in Peers, Bri!Merge(p) \/ Bri!StopInMerge(p)
    PROVE  BriefsInv' /\ granted' \ granted \subseteq pending
<1> USE DEF BriefsInv, Bri!BriefsTypeOK
<1>1. Bri!New(p) \subseteq Bri!Grant BY DEF Bri!New
<1>2. PICK G \in SUBSET Bri!Grant : Bri!Carry(G)
  BY <1>1 DEF Bri!Merge, Bri!StopInMerge
<1>3. /\ todo' \subseteq Peers /\ UNCHANGED <<surfaced, given, outbox, inbox, sent, now>>
      /\ actsOfPeople' \in 0..MaxDone
  BY HouseholdAssumption DEF Bri!Merge, Bri!StopInMerge, Bri!Act, Bri!people, Bri!mail,
     Bri!BriefsAssumption
<1>4. decided' \subseteq [peer : Peers, need : Bri!Need, approved : BOOLEAN]
  <2>1. \A g \in Bri!Grant :
            Bri!Mark(p, g) \in [peer : Peers, need : Bri!Need, approved : BOOLEAN]
    BY DEF Bri!Mark, Bri!Grant
  <2> QED BY <1>1, <2>1 DEF Bri!Merge, Bri!StopInMerge
<1>5. BriefsCarry' BY <1>3 DEF BriefsCarry
<1>6. /\ gate' \in BOOLEAN /\ question' \in Things \cup {None}
      /\ pending' \subseteq Newcomers /\ granted' \subseteq Newcomers
      /\ deniedAt' \in [Newcomers -> 0..MaxTime \cup {None}]
      /\ DeniedIsNotPending'
      /\ granted' \ granted \subseteq pending
  BY <1>2, CarryKeeps, Zenon
<1> QED BY <1>3, <1>4, <1>5, <1>6

\* What peers decide, and what the wire does.
LEMMA PeersKeep ==
    ASSUME BriefsInv, NEW p \in Peers,
           \/ Bri!PeerTick(p) \/ Bri!Dial(p) \/ Bri!Exchange(p) \/ Bri!Lose(p) \/ Bri!HubDials(p)
           \/ \E need \in Bri!Need, yes \in BOOLEAN : Bri!Decide(p, need, yes)
    PROVE  BriefsInv' /\ granted' = granted
<1> USE DEF BriefsInv, Bri!BriefsTypeOK
<1>1. /\ UNCHANGED <<gate, question, pending, granted, deniedAt, decided, todo, now>>
      /\ actsOfPeople' \in 0..MaxDone
  BY HouseholdAssumption DEF Bri!PeerTick, Bri!Dial, Bri!Exchange, Bri!Lose, Bri!HubDials,
     Bri!Decide, Bri!Act, Bri!hub, Bri!BriefsAssumption
<1>2. DeniedIsNotPending' BY <1>1 DEF DeniedIsNotPending
<1>3. p # Hub /\ p \in Bri!Nodes /\ Hub \in Bri!Nodes
  BY HouseholdAssumption DEF Bri!BriefsAssumption, Bri!Nodes
<1>4. CASE Bri!PeerTick(p)
  <2>1. Bri!Live(p) \subseteq Bri!Grant BY DEF Bri!Live
  <2>2. given' \in [Peers -> SUBSET Bri!Grant] /\ surfaced' \in [Peers -> SUBSET Bri!Need]
        /\ UNCHANGED <<inbox, sent>>
    BY <1>4, <2>1 DEF Bri!PeerTick
  <2>3. outbox' = [outbox EXCEPT ![p] = Bri!Live(p)] BY <1>4 DEF Bri!PeerTick
  <2>4. outbox' \in [Bri!Nodes -> SUBSET (Bri!Need \cup Bri!Grant)] BY <2>1, <2>3
  <2>5. BriefsCarry' BY <1>3, <2>1, <2>2, <2>3 DEF BriefsCarry
  <2> QED BY <1>1, <1>2, <2>2, <2>4, <2>5
<1>5. ASSUME NEW need \in Bri!Need, NEW yes \in BOOLEAN, Bri!Decide(p, need, yes)
      PROVE  BriefsInv' /\ granted' = granted
  <2>1. [need |-> need, approved |-> yes, ts |-> now] \in Bri!Grant BY DEF Bri!Grant
  <2>2. given' \in [Peers -> SUBSET Bri!Grant] BY <1>5, <2>1 DEF Bri!Decide
  <2>3. UNCHANGED <<surfaced, outbox, inbox, sent>> BY <1>5 DEF Bri!Decide, Bri!mail
  <2>4. BriefsCarry' BY <2>3 DEF BriefsCarry
  <2> QED BY <1>1, <1>2, <2>2, <2>3, <2>4
<1>6. CASE Bri!Dial(p) \/ Bri!Lose(p)
  <2>0. UNCHANGED <<surfaced, given, outbox, inbox>>
    BY <1>6 DEF Bri!Dial, Bri!Lose, Bri!people
  <2>1. sent' \in [Peers -> (SUBSET Bri!Grant) \cup {None}]
    <3>1. PICK v \in (SUBSET Bri!Grant) \cup {None} : sent' = [sent EXCEPT ![p] = v]
      BY <1>6 DEF Bri!Dial, Bri!Lose, BriefsCarry
    <3> QED BY <3>1 DEF BriefsCarry
  <2>2. BriefsCarry' BY <2>0, <2>1 DEF BriefsCarry
  <2> QED BY <1>1, <1>2, <2>0, <2>2
<1>7. CASE Bri!Exchange(p) \/ Bri!HubDials(p)
  <2>0. sent[p] # None => sent[p] \in SUBSET Bri!Grant BY DEF BriefsCarry
  <2>1. PICK brief \in SUBSET Bri!Grant :
            inbox' = [inbox EXCEPT ![p] = [toHub |-> brief, toPeer |-> outbox[Hub]]]
    <3>1. CASE Bri!Exchange(p) BY <2>0, <3>1 DEF Bri!Exchange, Bri!Swap
    <3>2. CASE Bri!HubDials(p) BY <3>2 DEF Bri!HubDials, Bri!Swap, BriefsCarry
    <3> QED BY <1>7, <3>1, <3>2
  <2>2. inbox' \in [Peers -> [toHub : SUBSET Bri!Grant, toPeer : SUBSET Bri!Need]]
    BY <2>1 DEF BriefsCarry
  <2>3. /\ UNCHANGED <<surfaced, given, outbox>>
        /\ sent' = sent \/ sent' = [sent EXCEPT ![p] = None]
    BY <1>7 DEF Bri!Exchange, Bri!HubDials, Bri!people
  <2>4. sent' \in [Peers -> (SUBSET Bri!Grant) \cup {None}]
    <3>1. None \in (SUBSET Bri!Grant) \cup {None} OBVIOUS
    <3> QED BY <2>3, <3>1 DEF BriefsCarry
  <2>5. BriefsCarry' BY <2>3, <2>4 DEF BriefsCarry
  <2> QED BY <1>1, <1>2, <2>2, <2>3, <2>5
<1> QED BY <1>4, <1>5, <1>6, <1>7

LEMMA PublishKeeps == BriefsInv /\ (Bri!Publish \/ Bri!Wait) => BriefsInv' /\ granted' = granted
<1> SUFFICES ASSUME BriefsInv, Bri!Publish \/ Bri!Wait PROVE BriefsInv' /\ granted' = granted
  OBVIOUS
<1> USE DEF BriefsInv, Bri!BriefsTypeOK
<1>1. CASE Bri!Wait
  <2>1. /\ now' \in 0..MaxTime
        /\ UNCHANGED <<gate, question, pending, granted, deniedAt, decided, todo,
                       surfaced, given, outbox, inbox, sent, actsOfPeople>>
    BY <1>1, HouseholdAssumption
       DEF Bri!Wait, Bri!hub, Bri!people, Bri!mail, Bri!BriefsAssumption
  <2> QED BY <2>1 DEF DeniedIsNotPending, BriefsCarry
<1>2. CASE Bri!Publish
  <2>1. Bri!Needs \subseteq Bri!Need
    <3>1. [kind : {"enrollment"}, ref : pending] \subseteq Bri!Need BY DEF Bri!Need
    <3>2. \A k \in {"question", "gate"} : [kind |-> k, ref |-> None] \in Bri!Need
      BY DEF Bri!Need
    <3> QED BY <3>1, <3>2 DEF Bri!Needs
  <2>2. /\ UNCHANGED <<gate, question, pending, granted, deniedAt, decided,
                       surfaced, given, inbox, sent, now, actsOfPeople>>
        /\ outbox' = [outbox EXCEPT ![Hub] = Bri!Needs] /\ todo' \subseteq Peers
    BY <1>2 DEF Bri!Publish, Bri!hub, Bri!people
  <2>3. outbox' \in [Bri!Nodes -> SUBSET (Bri!Need \cup Bri!Grant)] BY <2>1, <2>2
  <2>4. Hub \in Bri!Nodes /\ Hub \notin Peers
    BY HouseholdAssumption DEF Bri!Nodes, Bri!BriefsAssumption
  <2>5. BriefsCarry' /\ DeniedIsNotPending'
    BY <2>1, <2>2, <2>4 DEF BriefsCarry, DeniedIsNotPending
  <2> QED BY <2>2, <2>3, <2>5
<1> QED BY <1>1, <1>2

LEMMA BriefsNextKeeps == BriefsInv /\ [Bri!Next]_briefs => BriefsInv'
<1> SUFFICES ASSUME BriefsInv, [Bri!Next]_briefs PROVE BriefsInv'
  OBVIOUS
<1>1. CASE UNCHANGED briefs
  BY <1>1 DEF briefs, BriefsInv, Bri!BriefsTypeOK, DeniedIsNotPending, BriefsCarry
<1> QED BY <1>1, AtHubKeeps, PublishKeeps, MergeKeeps, PeersKeep, Zenon DEF Bri!Next

\* Who was told "not now" is not let in within the retry window, whichever way
\* the next yes takes (mesh/src/enroll.rs, denied_for).
THEOREM NotNowIsKept == Bri!Spec => NotNowHolds
<1> DEFINE Waited == \A n \in granted' \ granted :
                        deniedAt[n] # None => now - deniedAt[n] >= DenyHold
<1>1. BriefsInv /\ [Bri!Next]_(Bri!vars) => BriefsInv'
  BY BriefsNextKeeps DEF Bri!vars, briefs, Bri!hub, Bri!people, Bri!mail
<1>2. BriefsInv /\ [Bri!Next]_(Bri!vars) => [Waited]_<<granted>>
  <2> SUFFICES ASSUME BriefsInv, [Bri!Next]_(Bri!vars), granted' # granted PROVE Waited
    OBVIOUS
  <2>1. ASSUME NEW n \in Newcomers, Bri!Knock(n) PROVE Waited
    BY <2>1, HouseholdAssumption
       DEF Bri!Knock, Bri!Held, Bri!Admit, BriefsInv, Bri!BriefsTypeOK, Bri!BriefsAssumption
  <2>2. CASE granted' \ granted \subseteq pending
    BY <2>2 DEF BriefsInv, DeniedIsNotPending
  <2>3. CASE Bri!AtHub
    <3>1. \/ \E n \in Newcomers : Bri!Knock(n)
          \/ \E n \in pending : granted' = granted \cup {n}
      BY <2>3 DEF Bri!AtHub, Bri!OpenGate, Bri!AskQuestion, Bri!Poll, Bri!DenyHere, Bri!Admit
    <3> QED BY <2>1, <2>2, <3>1
  <2>4. CASE UNCHANGED (Bri!vars) BY <2>4 DEF Bri!vars, Bri!hub
  <2> QED BY <2>2, <2>3, <2>4, PublishKeeps, MergeKeeps, PeersKeep, Zenon DEF Bri!Next
<1> QED BY <1>1, <1>2, BriefsInitInv, PTL DEF Bri!Spec, NotNowHolds, Bri!NotNowHolds
-----------------------------------------------------------------------------
(* The theories two doors share.  Every update is by id, and reaches all   *)
(* the rows of that id.                                                    *)

\* Any set of naturals that is not empty has a least member.
LEMMA LeastExists ==
    ASSUME NEW S \in SUBSET Nat, S # {}
    PROVE  \E x \in S : \A y \in S : x <= y
<1> DEFINE R == {ss \in Nat \X Nat : ss[1] < ss[2]}
<1>1. IsWellFoundedOn(R, Nat)
  BY NatLessThanWellFounded, Zenon DEF OpToRel
<1> HIDE DEF R
<1>2. PICK x \in S : \A y \in S : ~(<<y, x>> \in R)
  BY <1>1, WFMin, Zenon
<1>3. ASSUME NEW y \in S PROVE x <= y
  <2>1. ~(<<y, x>> \in R) BY <1>2
  <2> QED BY <2>1 DEF R
<1> QED BY <1>3

Theory == [id : Nat \ {0}, claim : Claims, status : Thr!Live \cup Thr!TERMINAL_STATUSES,
           statusAt : Nat, worked : Nat, born : Nat,
           answers : SUBSET [door : Thr!Both, nr : Nat], successor : Nat]

\* No row is from the future, and what was folded says into what.
Timely(t, time) ==
    /\ t.born <= t.statusAt /\ t.statusAt <= time /\ t.worked <= time
    /\ t.status = "superseded" => t.successor # 0

Store(rows, time) == rows \in Seq(Theory) /\ \A k \in DOMAIN rows : Timely(rows[k], time)

TheoriesInv ==
    /\ held \in [Thr!Both -> Seq(Theory)] /\ \A d \in Thr!Both : Store(held[d], day)
    /\ \/ offer = Thr!NoOffer
       \/ offer \in [to : Thr!Both, rows : SUBSET [pos : Nat, row : Theory]]
    /\ \A x \in offer.rows : Timely(x.row, day)
    /\ met \subseteq Thr!Both
    /\ ops \in 0..MaxOps /\ lost \in 0..MaxLost /\ day \in 1..MaxDay

LEMMA RowIsFirst ==
    ASSUME NEW rows \in Seq(Theory), NEW id
    PROVE  /\ Thr!Row(rows, id) \in {0} \cup DOMAIN rows
           /\ Thr!Row(rows, id) # 0 => rows[Thr!Row(rows, id)].id = id
           /\ (\E k \in DOMAIN rows : rows[k].id = id) => Thr!Row(rows, id) # 0
<1> DEFINE these == {k \in DOMAIN rows : rows[k].id = id}
<1>1. these \in SUBSET Nat /\ 0 \notin these /\ these \subseteq DOMAIN rows OBVIOUS
<1>2. these # {} => \E k \in these : \A j \in these : k <= j BY <1>1, LeastExists
<1>3. Thr!Row(rows, id) =
        IF these = {} THEN 0 ELSE CHOOSE k \in these : \A j \in these : k <= j
  BY Zenon DEF Thr!Row, Thr!First
<1>4. these # {} => (CHOOSE k \in these : \A j \in these : k <= j) \in these
  <2> HIDE DEF these
  <2> QED BY <1>2, Zenon
<1> QED BY <1>1, <1>3, <1>4

LEMMA PutStores ==
    ASSUME NEW rows, NEW time, Store(rows, time), NEW id, NEW t \in Theory, Timely(t, time)
    PROVE  /\ Store(Thr!Put(rows, id, t), time)
           /\ DOMAIN Thr!Put(rows, id, t) = DOMAIN rows
           /\ \A k \in DOMAIN rows :
                 Thr!Put(rows, id, t)[k] = IF rows[k].id = id THEN t ELSE rows[k]
<1> DEFINE n == Len(rows)
<1>1. n \in Nat /\ DOMAIN rows = 1..n BY DEF Store
<1>2. Thr!Put(rows, id, t) \in [1..n -> Theory] BY <1>1 DEF Thr!Put, Store
<1>3. Thr!Put(rows, id, t) \in Seq(Theory) BY <1>1, <1>2, IsASeq
<1> QED BY <1>1, <1>2, <1>3 DEF Thr!Put, Store

LEMMA AppendStores ==
    ASSUME NEW rows, NEW time, Store(rows, time), NEW t \in Theory, Timely(t, time)
    PROVE  /\ Store(Append(rows, t), time)
           /\ \A k \in DOMAIN rows : k \in DOMAIN Append(rows, t) /\ Append(rows, t)[k] = rows[k]
BY DEF Store

LEMMA TheoriesInitInv == Thr!Init => TheoriesInv
<1> SUFFICES ASSUME Thr!Init PROVE TheoriesInv
  OBVIOUS
<1>1. Thr!NoOffer.rows = {} BY DEF Thr!NoOffer
<1>2. \A d \in Thr!Both : held[d] = <<>> /\ Store(held[d], day) BY DEF Thr!Init, Store
<1>3. held \in [Thr!Both -> Seq(Theory)] BY DEF Thr!Init
<1> QED BY <1>1, <1>2, <1>3, HouseholdAssumption
        DEF Thr!Init, TheoriesInv, Thr!TheoriesAssumption

\* The row an id names is one of that id.
LEMMA HasIsARow ==
    ASSUME TheoriesInv, NEW d \in Thr!Both, NEW id \in Thr!Ids(d)
    PROVE  /\ Thr!Has(d, id) \in Theory /\ Timely(Thr!Has(d, id), day)
           /\ Thr!Has(d, id).id = id
<1>1. PICK k \in DOMAIN held[d] : held[d][k].id = id BY DEF Thr!Ids
<1>2. held[d] \in Seq(Theory) /\ Store(held[d], day) BY DEF TheoriesInv
<1>3. Thr!Row(held[d], id) \in DOMAIN held[d] /\ held[d][Thr!Row(held[d], id)].id = id
  BY <1>1, <1>2, RowIsFirst
<1> QED BY <1>2, <1>3 DEF Thr!Has, Store

\* One door's store changes, and stays one.
LEMMA StoreKeeps ==
    ASSUME TheoriesInv, NEW d \in Thr!Both, NEW rows, Store(rows, day),
           held' = [held EXCEPT ![d] = rows],
           ops' \in 0..MaxOps, lost' \in 0..MaxLost, UNCHANGED day,
           \/ UNCHANGED <<offer, met>>
           \/ /\ offer' = Thr!NoOffer \/ (/\ offer' \in [to : Thr!Both, rows : SUBSET [pos : Nat, row : Theory]]
                                        /\ \A x \in offer'.rows : Timely(x.row, day))
              /\ met' \subseteq Thr!Both
    PROVE  TheoriesInv'
<1>1. rows \in Seq(Theory) BY DEF Store
<1>2. held' \in [Thr!Both -> Seq(Theory)] BY <1>1 DEF TheoriesInv
<1>3. \A e \in Thr!Both : Store(held'[e], day') BY DEF TheoriesInv
<1>4. Thr!NoOffer.rows = {} BY DEF Thr!NoOffer
<1>5. /\ \/ offer' = Thr!NoOffer
         \/ offer' \in [to : Thr!Both, rows : SUBSET [pos : Nat, row : Theory]]
      /\ \A x \in offer'.rows : Timely(x.row, day')
      /\ met' \subseteq Thr!Both
  BY <1>4 DEF TheoriesInv
<1>6. day' \in 1..MaxDay BY DEF TheoriesInv
<1> QED BY <1>2, <1>3, <1>5, <1>6 DEF TheoriesInv

LEMMA ChangeKeeps ==
    ASSUME TheoriesInv, NEW d \in Thr!Both, NEW id, NEW t \in Theory, Timely(t, day),
           Thr!Change(d, id, t), Thr!Did, Thr!Quietly
    PROVE  TheoriesInv'
<1>1. Store(held[d], day) BY DEF TheoriesInv
<1>2. Store(Thr!Put(held[d], id, t), day) BY <1>1, PutStores
<1>3. held' = [held EXCEPT ![d] = Thr!Put(held[d], id, t)] BY DEF Thr!Change
<1>4. ops' \in 0..MaxOps /\ lost' \in 0..MaxLost /\ UNCHANGED <<offer, met, day>>
  BY HouseholdAssumption DEF Thr!Did, Thr!Quietly, TheoriesInv, Thr!TheoriesAssumption
<1> QED BY <1>2, <1>3, <1>4, StoreKeeps

LEMMA BecameIsTimely ==
    ASSUME NEW t \in Theory, Timely(t, day), day \in Nat,
           NEW status \in (Thr!Live \cup Thr!TERMINAL_STATUSES) \ {"superseded"}
    PROVE  Thr!Became(t, status) \in Theory /\ Timely(Thr!Became(t, status), day)
<1> DEFINE at == IF t.status # status THEN day ELSE t.statusAt
           work == IF status \in {"pursued", "answered"} THEN day ELSE t.worked
<1>1. Thr!Became(t, status) = [t EXCEPT !.status = status, !.statusAt = at, !.worked = work]
  BY DEF Thr!Became
<1>2. at \in Nat /\ work \in Nat /\ at <= day /\ work <= day /\ t.born <= at
  BY DEF Timely, Theory
<1> HIDE DEF at, work
<1>3. Thr!Became(t, status) \in Theory BY <1>1, <1>2 DEF Theory
<1>4. /\ Thr!Became(t, status).statusAt = at /\ Thr!Became(t, status).worked = work
      /\ Thr!Became(t, status).born = t.born /\ Thr!Became(t, status).status = status
  BY <1>1 DEF Theory
<1> QED BY <1>2, <1>3, <1>4 DEF Timely

LEMMA HeardIsTimely ==
    ASSUME NEW t \in Theory, Timely(t, day), NEW d \in Thr!Both, TheoriesInv
    PROVE  Thr!Heard(t, d) \in Theory /\ Timely(Thr!Heard(t, d), day)
<1>1. [door |-> d, nr |-> ops] \in [door : Thr!Both, nr : Nat] BY DEF TheoriesInv
<1>2. t.answers \cup {[door |-> d, nr |-> ops]} \in SUBSET [door : Thr!Both, nr : Nat]
  BY <1>1 DEF Theory
<1>3. Thr!Heard(t, d) = [t EXCEPT !.answers = t.answers \cup {[door |-> d, nr |-> ops]}]
  BY DEF Thr!Heard
<1> QED BY <1>2, <1>3 DEF Theory, Timely

LEMMA WorkedIsTimely ==
    ASSUME NEW t \in Theory, Timely(t, day), day \in Nat
    PROVE  [t EXCEPT !.worked = day] \in Theory /\ Timely([t EXCEPT !.worked = day], day)
BY DEF Theory, Timely

LEMMA MintKeeps ==
    ASSUME TheoriesInv, NEW d \in Thr!Both, NEW c \in Claims, Thr!Mint(d, c)
    PROVE  TheoriesInv'
<1> DEFINE these == {k \in DOMAIN held[d] : held[d][k].status \in Thr!Live /\ held[d][k].claim = c}
           same == IF these = {} THEN 0 ELSE CHOOSE k \in these : \A j \in these : k <= j
           new == [id |-> Len(held[d]) + 1, claim |-> c, status |-> "open", statusAt |-> day,
                    worked |-> 0, born |-> day, answers |-> {}, successor |-> 0]
<1>1. Store(held[d], day) /\ held[d] \in Seq(Theory) /\ day \in Nat BY DEF TheoriesInv
<1>2. same \in {0} \cup DOMAIN held[d]
  <2>1. these \in SUBSET Nat /\ these \subseteq DOMAIN held[d] BY <1>1
  <2>2. these # {} => \E k \in these : \A j \in these : k <= j BY <2>1, LeastExists
  <2>3. these # {} => (CHOOSE k \in these : \A j \in these : k <= j) \in these
    <3> HIDE DEF these
    <3> QED BY <2>2, Zenon
  <2> QED BY <2>1, <2>3
<1>3. Thr!Did /\ Thr!Quietly
      /\ IF same # 0
         THEN Thr!Change(d, held[d][same].id,
                         [Thr!Has(d, held[d][same].id) EXCEPT !.worked = day])
         ELSE held' = [held EXCEPT ![d] = Append(held[d], new)]
  BY Zenon DEF Thr!Mint, Thr!First
<1> HIDE DEF these, same
<1>4. CASE same # 0
  <2>1. held[d][same].id \in Thr!Ids(d) BY <1>2, <1>4 DEF Thr!Ids
  <2> QED BY <1>1, <1>3, <1>4, <2>1, HasIsARow, WorkedIsTimely, ChangeKeeps
<1>5. CASE same = 0
  <2>1. new \in Theory /\ Timely(new, day)
    <3>1. Len(held[d]) + 1 \in Nat \ {0} BY <1>1
    <3>2. "open" \in Thr!Live BY DEF Thr!Live
    <3> QED BY <1>1, <3>1, <3>2 DEF Theory, Timely
  <2>2. Store(Append(held[d], new), day) BY <1>1, <2>1, AppendStores
  <2>3. ops' \in 0..MaxOps /\ lost' \in 0..MaxLost /\ UNCHANGED <<offer, met, day>>
    BY <1>3, HouseholdAssumption DEF Thr!Did, Thr!Quietly, TheoriesInv, Thr!TheoriesAssumption
  <2> HIDE DEF new
  <2> QED BY <1>3, <1>5, <2>2, <2>3, StoreKeeps
<1> QED BY <1>4, <1>5

LEMMA SpokenKeeps ==
    ASSUME TheoriesInv, NEW d \in Thr!Both, NEW id \in Thr!Ids(d),
           Thr!Pursue(d, id) \/ Thr!Retire(d, id) \/ Thr!Answer(d, id)
    PROVE  TheoriesInv'
<1> DEFINE t == Thr!Has(d, id)
<1>1. t \in Theory /\ Timely(t, day) /\ day \in Nat BY HasIsARow DEF TheoriesInv
<1>2. {"pursued", "retired", "abandoned", "open"} \subseteq
        (Thr!Live \cup Thr!TERMINAL_STATUSES) \ {"superseded"}
  BY DEF Thr!Live, Thr!TERMINAL_STATUSES
<1>3. CASE Thr!Pursue(d, id)
  <2>1. Thr!Did /\ Thr!Quietly /\ Thr!Change(d, id, Thr!Became(t, "pursued"))
    BY <1>3 DEF Thr!Pursue
  <2> HIDE DEF t
  <2> QED BY <1>1, <1>2, <2>1, BecameIsTimely, ChangeKeeps
<1>4. CASE Thr!Retire(d, id)
  <2>1. Thr!Did /\ Thr!Quietly
        /\ \/ Thr!Change(d, id, Thr!Heard(Thr!Became(t, "retired"), d))
           \/ Thr!Change(d, id, Thr!Became(t, "abandoned"))
    BY <1>4 DEF Thr!Retire
  <2> HIDE DEF t
  <2>2. \A s \in {"retired", "abandoned"} :
            Thr!Became(t, s) \in Theory /\ Timely(Thr!Became(t, s), day)
    BY <1>1, <1>2, BecameIsTimely
  <2>3. Thr!Heard(Thr!Became(t, "retired"), d) \in Theory
        /\ Timely(Thr!Heard(Thr!Became(t, "retired"), d), day)
    BY <2>2, HeardIsTimely
  <2> QED BY <2>1, <2>2, <2>3, ChangeKeeps
<1>5. CASE Thr!Answer(d, id)
  <2> DEFINE heard == [Thr!Heard(t, d) EXCEPT !.worked = day]
             next == IF t.status \in Thr!TERMINAL_STATUSES \ {"superseded"}
                     THEN Thr!Became(heard, "open") ELSE heard
  <2>1. Thr!Did /\ Thr!Quietly /\ Thr!Change(d, id, next) BY <1>5 DEF Thr!Answer
  <2>2. Thr!Heard(t, d) \in Theory /\ Timely(Thr!Heard(t, d), day)
    BY <1>1, HeardIsTimely
  <2>3. heard \in Theory /\ Timely(heard, day) BY <1>1, <2>2, WorkedIsTimely
  <2> HIDE DEF heard
  <2>4. Thr!Became(heard, "open") \in Theory /\ Timely(Thr!Became(heard, "open"), day)
    BY <1>1, <1>2, <2>3, BecameIsTimely
  <2>5. next \in Theory /\ Timely(next, day) BY <2>3, <2>4
  <2> HIDE DEF next
  <2> QED BY <2>1, <2>5, ChangeKeeps
<1> QED BY <1>3, <1>4, <1>5

LEMMA FoldKeeps ==
    ASSUME TheoriesInv, NEW d \in Thr!Both, NEW id \in Thr!Ids(d), NEW member \in Thr!Ids(d),
           Thr!Fold(d, id, member)
    PROVE  TheoriesInv'
<1> DEFINE mem == Thr!Has(d, member)
           home == [Thr!Has(d, id) EXCEPT !.worked = day]
           became == Thr!Became(mem, "superseded")
           gone == [became EXCEPT !.successor = id]
           full == [home EXCEPT !.answers = @ \cup mem.answers]
<1>1. /\ mem \in Theory /\ Timely(mem, day) /\ mem.id = member /\ day \in Nat
      /\ Thr!Has(d, id) \in Theory /\ Timely(Thr!Has(d, id), day)
      /\ Thr!Has(d, id).id = id
  BY HasIsARow DEF TheoriesInv
<1>2. home \in Theory /\ Timely(home, day) BY <1>1, WorkedIsTimely
<1>3. full \in Theory /\ Timely(full, day)
  <2> HIDE DEF home, mem
  <2>1. home.answers \cup mem.answers \in SUBSET [door : Thr!Both, nr : Nat]
    BY <1>1, <1>2 DEF Theory
  <2> QED BY <1>2, <2>1 DEF Theory, Timely
<1>4. gone \in Theory /\ Timely(gone, day)
  <2>1. id \in Nat \ {0} BY <1>1 DEF Theory
  <2> DEFINE at == IF mem.status # "superseded" THEN day ELSE mem.statusAt
  <2>2. became = [mem EXCEPT !.status = "superseded", !.statusAt = at, !.worked = mem.worked]
    BY DEF Thr!Became
  <2>3. at \in Nat /\ at <= day /\ mem.born <= at BY <1>1 DEF Timely, Theory
  <2> HIDE DEF at, mem, became
  <2>4. "superseded" \in Thr!TERMINAL_STATUSES BY DEF Thr!TERMINAL_STATUSES
  <2>5. became \in Theory BY <1>1, <2>2, <2>3, <2>4 DEF Theory
  <2>6. became.statusAt = at /\ became.worked = mem.worked /\ became.born = mem.born
    BY <1>1, <2>2 DEF Theory
  <2>7. gone \in Theory /\ gone.successor = id /\ gone.statusAt = at
        /\ gone.worked = mem.worked /\ gone.born = mem.born
    BY <2>1, <2>5, <2>6 DEF Theory
  <2> QED BY <1>1, <2>1, <2>3, <2>7 DEF Timely
<1>5. Thr!Did /\ Thr!Quietly
      /\ IF mem.status = "superseded" THEN Thr!Change(d, id, home)
         ELSE held' = [held EXCEPT ![d] = Thr!Put(Thr!Put(@, member, gone), id, full)]
  BY DEF Thr!Fold
<1> HIDE DEF mem, home, gone, full
<1>6. CASE mem.status = "superseded" BY <1>2, <1>5, <1>6, ChangeKeeps
<1>7. CASE mem.status # "superseded"
  <2> DEFINE rows == Thr!Put(Thr!Put(held[d], member, gone), id, full)
  <2>1. Store(held[d], day) BY DEF TheoriesInv
  <2>2. Store(Thr!Put(held[d], member, gone), day) BY <1>4, <2>1, PutStores
  <2>3. Store(rows, day) BY <1>3, <2>2, PutStores
  <2>4. ops' \in 0..MaxOps /\ lost' \in 0..MaxLost /\ UNCHANGED <<offer, met, day>>
    BY <1>5, HouseholdAssumption DEF Thr!Did, Thr!Quietly, TheoriesInv, Thr!TheoriesAssumption
  <2>5. held' = [held EXCEPT ![d] = rows] BY <1>5, <1>7 DEF TheoriesInv
  <2> HIDE DEF rows
  <2> QED BY <2>3, <2>4, <2>5, StoreKeeps
<1> QED BY <1>6, <1>7

\* merge_incoming keeps a verdict, and what it makes of two copies is a
\* theory like them.
LEMMA KnownIsTimely ==
    ASSUME NEW t \in Theory, NEW time, NEW s \in Nat,
           t.born <= t.statusAt /\ t.statusAt <= time /\ t.worked <= time,
           t.status = "superseded" => t.successor # 0 \/ s # 0
    PROVE  /\ Thr!Known(t, s) \in Theory /\ Timely(Thr!Known(t, s), time)
           /\ Thr!Known(t, s).status = t.status
BY DEF Thr!Known, Theory, Timely

LEMMA MergedKeepsVerdicts ==
    ASSUME NEW x \in Theory, NEW y \in Theory, NEW time \in Nat, Timely(x, time), Timely(y, time)
    PROVE  /\ Thr!Merged(x, y) \in Theory /\ Timely(Thr!Merged(x, y), time)
           /\ Thr!Terminal(x) => Thr!Terminal(Thr!Merged(x, y))
<1>1. CASE Thr!Terminal(x) /\ ~Thr!Terminal(y) BY <1>1 DEF Thr!Merged
<1>2. CASE Thr!Terminal(y) /\ ~Thr!Terminal(x)
  <2> DEFINE at == Thr!Later(y.statusAt, x.statusAt)
             base == [x EXCEPT !.status = y.status, !.statusAt = at]
  <2>1. Thr!Merged(x, y) = Thr!Known(base, y.successor) BY <1>2 DEF Thr!Merged
  <2>2. at \in Nat /\ at <= time /\ x.born <= at BY DEF Thr!Later, Theory, Timely
  <2> HIDE DEF at
  <2>3. base \in Theory /\ base.born = x.born /\ base.statusAt = at /\ base.worked = x.worked
        /\ base.status = y.status
    BY <2>2 DEF Theory
  <2>4. y.successor \in Nat /\ (y.status = "superseded" => y.successor # 0) /\ x.worked <= time
    BY DEF Theory, Timely
  <2> HIDE DEF base
  <2> QED BY <1>2, <2>1, <2>2, <2>3, <2>4, KnownIsTimely
<1>3. CASE Thr!Terminal(x) = Thr!Terminal(y) /\ y.statusAt > x.statusAt
  <2> DEFINE base == Thr!Known(y, x.successor)
             work == Thr!Later(y.worked, x.worked)
  <2>1. Thr!Merged(x, y) = [base EXCEPT !.worked = Thr!Later(y.worked, x.worked)]
    BY <1>3 DEF Thr!Merged
  <2>2. base \in Theory /\ Timely(base, time) /\ base.status = y.status
    <3>1. x.successor \in Nat BY DEF Theory
    <3> QED BY <3>1, KnownIsTimely DEF Timely
  <2>3. work \in Nat /\ work <= time BY DEF Thr!Later, Theory, Timely
  <2> HIDE DEF base, work
  <2>4. /\ Thr!Merged(x, y) \in Theory /\ Timely(Thr!Merged(x, y), time)
        /\ Thr!Merged(x, y).status = y.status
    <3>1. Thr!Merged(x, y) = [base EXCEPT !.worked = work] BY <2>1 DEF work
    <3> QED BY <2>2, <2>3, <3>1 DEF Theory, Timely
  <2> QED BY <1>3, <2>4 DEF Thr!Terminal
<1>4. CASE Thr!Terminal(x) = Thr!Terminal(y) /\ ~(y.statusAt > x.statusAt)
  <2>1. Thr!Merged(x, y) = Thr!Known(x, y.successor) BY <1>4 DEF Thr!Merged
  <2>2. y.successor \in Nat BY DEF Theory
  <2>3. /\ Thr!Known(x, y.successor) \in Theory /\ Timely(Thr!Known(x, y.successor), time)
        /\ Thr!Known(x, y.successor).status = x.status
    BY <2>2, KnownIsTimely DEF Timely
  <2> QED BY <2>1, <2>3 DEF Thr!Terminal
<1>5. Thr!Terminal(x) \in BOOLEAN /\ Thr!Terminal(y) \in BOOLEAN BY DEF Thr!Terminal
<1> QED BY <1>1, <1>2, <1>3, <1>4, <1>5

\* Absorbing a row undoes no verdict: what a store with its ids apart has
\* closed stays closed.
LEMMA AbsorbedKeepsVerdicts ==
    ASSUME NEW rows, NEW time \in Nat, Store(rows, time), NEW t \in Theory, Timely(t, time)
    PROVE  /\ Store(Thr!Absorbed(rows, t), time)
           /\ Thr!IdsApart(rows) => \A k \in DOMAIN rows :
                 Thr!Terminal(rows[k]) => Thr!Terminal(Thr!Absorbed(rows, t)[k])
<1> DEFINE mine == Thr!Counterpart(rows, t)
           new == Thr!Merged(rows[mine], t)
           merged == [new EXCEPT !.id = rows[mine].id]
<1>0. rows \in Seq(Theory) BY DEF Store
<1>1. mine \in {0} \cup DOMAIN rows
  <2>1. Thr!Row(rows, t.id) \in {0} \cup DOMAIN rows BY <1>0, RowIsFirst
  <2>2. Thr!First(rows, LAMBDA r : r.claim = t.claim) \in {0} \cup DOMAIN rows
    <3> DEFINE these == {k \in DOMAIN rows : rows[k].claim = t.claim}
    <3>1. these \in SUBSET Nat /\ these \subseteq DOMAIN rows BY <1>0
    <3>2. these # {} => \E k \in these : \A j \in these : k <= j BY <3>1, LeastExists
    <3>3. Thr!First(rows, LAMBDA r : r.claim = t.claim) =
            IF these = {} THEN 0 ELSE CHOOSE k \in these : \A j \in these : k <= j
      BY Zenon DEF Thr!First
    <3>4. these # {} => (CHOOSE k \in these : \A j \in these : k <= j) \in these
      <4> HIDE DEF these
      <4> QED BY <3>2, Zenon
    <3> QED BY <3>1, <3>3, <3>4
  <2> QED BY <2>1, <2>2, Zenon DEF Thr!Counterpart
<1>2. Thr!Absorbed(rows, t) =
        IF mine = 0 THEN Append(rows, t)
        ELSE IF merged = rows[mine] THEN rows ELSE Thr!Put(rows, rows[mine].id, merged)
  BY DEF Thr!Absorbed
<1> HIDE DEF mine
<1>3. CASE mine = 0
  <2>1. Thr!Absorbed(rows, t) = Append(rows, t) BY <1>2, <1>3
  <2> QED BY <2>1, AppendStores
<1>4. CASE mine # 0 /\ merged = rows[mine]
  <2>1. Thr!Absorbed(rows, t) = rows BY <1>2, <1>4
  <2> QED BY <2>1
<1>5. CASE mine # 0 /\ merged # rows[mine]
  <2>1. mine \in DOMAIN rows /\ rows[mine] \in Theory /\ Timely(rows[mine], time)
    BY <1>0, <1>1, <1>5 DEF Store
  <2>2. /\ new \in Theory /\ Timely(new, time)
        /\ Thr!Terminal(rows[mine]) => Thr!Terminal(new)
    BY <2>1, MergedKeepsVerdicts
  <2> HIDE DEF new
  <2>3. merged \in Theory /\ Timely(merged, time) /\ merged.status = new.status
    BY <2>1, <2>2 DEF Theory, Timely
  <2>4. Thr!Absorbed(rows, t) = Thr!Put(rows, rows[mine].id, merged) BY <1>2, <1>5
  <2> HIDE DEF merged
  <2>5. /\ Store(Thr!Absorbed(rows, t), time)
        /\ \A k \in DOMAIN rows :
              Thr!Absorbed(rows, t)[k] = IF rows[k].id = rows[mine].id THEN merged ELSE rows[k]
    BY <2>3, <2>4, PutStores
  <2>6. Thr!Terminal(rows[mine]) => Thr!Terminal(merged)
    BY <2>2, <2>3 DEF Thr!Terminal
  <2> QED BY <2>1, <2>5, <2>6 DEF Thr!IdsApart
<1> QED BY <1>3, <1>4, <1>5

\* A closed theory stays closed at a door whose ids are apart, as in
\* SyncRevivesNothing.
VerdictsStand ==
    \A d \in Thr!Both : Thr!IdsApart(held[d]) =>
        \A k \in DOMAIN held[d] : Thr!Terminal(held[d][k]) => Thr!Terminal(held'[d][k])

LEMMA ThrAbsorbKeeps ==
    ASSUME TheoriesInv, Thr!Absorb
    PROVE  TheoriesInv' /\ VerdictsStand
<1>1. PICK x \in offer.rows :
          /\ held' = [held EXCEPT ![offer.to] = Thr!Absorbed(held[offer.to], x.row)]
          /\ IF offer.rows = {x}
             THEN offer' = Thr!NoOffer /\ met' = met \cup {offer.to}
             ELSE offer' = [offer EXCEPT !.rows = offer.rows \ {x}] /\ UNCHANGED met
  BY DEF Thr!Absorb
<1>2. UNCHANGED <<ops, lost, day>> BY DEF Thr!Absorb
<1>3. offer \in [to : Thr!Both, rows : SUBSET [pos : Nat, row : Theory]]
  BY <1>1 DEF TheoriesInv, Thr!NoOffer
<1> DEFINE d == offer.to
           rows == Thr!Absorbed(held[d], x.row)
<1>4. d \in Thr!Both /\ x.row \in Theory /\ Timely(x.row, day) /\ day \in Nat
      /\ Store(held[d], day)
  BY <1>1, <1>3 DEF TheoriesInv
<1>5. /\ Store(rows, day)
      /\ Thr!IdsApart(held[d]) => \A k \in DOMAIN held[d] :
             Thr!Terminal(held[d][k]) => Thr!Terminal(rows[k])
  BY <1>4, AbsorbedKeepsVerdicts
<1>6. held' = [held EXCEPT ![d] = rows] BY <1>1
<1> HIDE DEF rows
<1>7. VerdictsStand BY <1>4, <1>5, <1>6 DEF VerdictsStand, TheoriesInv
<1>8. /\ offer' = Thr!NoOffer
         \/ (/\ offer' \in [to : Thr!Both, rows : SUBSET [pos : Nat, row : Theory]]
             /\ \A y \in offer'.rows : Timely(y.row, day))
      /\ met' \subseteq Thr!Both
  BY <1>1, <1>3 DEF TheoriesInv
<1>9. ops' \in 0..MaxOps /\ lost' \in 0..MaxLost BY <1>2 DEF TheoriesInv
<1> HIDE DEF d
<1> QED BY <1>2, <1>4, <1>5, <1>6, <1>7, <1>8, <1>9, StoreKeeps

\* The theories stay while an offer is made or lost, time passes, or other
\* things happen.
LEMMA TheoriesInTime ==
    ASSUME TheoriesInv, UNCHANGED <<held, ops>>, day' \in 1..MaxDay, day' >= day,
           lost' \in 0..MaxLost, met' \in {met, {}},
           \/ offer' \in {offer, Thr!NoOffer}
           \/ /\ offer' \in [to : Thr!Both, rows : SUBSET [pos : Nat, row : Theory]]
              /\ \A x \in offer'.rows : Timely(x.row, day)
    PROVE  TheoriesInv'
<1>1. ASSUME NEW t \in Theory, Timely(t, day) PROVE Timely(t, day')
  BY <1>1 DEF Timely, Theory, TheoriesInv
<1>2. \A d \in Thr!Both : Store(held'[d], day') BY <1>1 DEF TheoriesInv, Store
<1>3. Thr!NoOffer.rows = {} BY DEF Thr!NoOffer
<1>4. \A x \in offer'.rows : Timely(x.row, day)
      /\ (offer' # Thr!NoOffer => offer' \in [to : Thr!Both, rows : SUBSET [pos : Nat, row : Theory]])
  BY <1>3 DEF TheoriesInv
<1>5. \A x \in offer'.rows : Timely(x.row, day') BY <1>1, <1>3, <1>4
<1>6. met' \subseteq Thr!Both BY DEF TheoriesInv
<1> QED BY <1>2, <1>4, <1>5, <1>6 DEF TheoriesInv

\* Whatever part of what is recent goes out, however an offer is cut.
LEMMA OfferKeeps ==
    ASSUME TheoriesInv, NEW d \in Thr!Both, NEW rows \in SUBSET Thr!Recent(d),
           offer = Thr!NoOffer, offer' = [to |-> Thr!Other(d), rows |-> rows],
           UNCHANGED <<held, met, ops, lost, day>>
    PROVE  TheoriesInv'
<1>1. day >= day /\ day \in 1..MaxDay /\ lost \in 0..MaxLost BY DEF TheoriesInv
<1>2. Thr!Other(d) \in Thr!Both BY DEF Thr!Other, Thr!Both
<1>3. \A x \in rows : x \in [pos : Nat, row : Theory] /\ Timely(x.row, day)
  <2>1. Store(held[d], day) /\ held[d] \in Seq(Theory) BY DEF TheoriesInv
  <2>2. \A k \in DOMAIN held[d] : k \in Nat /\ held[d][k] \in Theory
        /\ Timely(held[d][k], day)
    BY <2>1 DEF Store
  <2>3. \A x \in rows : \E k \in DOMAIN held[d] : x = [pos |-> k, row |-> held[d][k]]
    BY DEF Thr!Recent
  <2> QED BY <2>2, <2>3
<1>4. offer' \in [to : Thr!Both, rows : SUBSET [pos : Nat, row : Theory]] /\ offer'.rows = rows
  BY <1>2, <1>3
<1> QED BY <1>1, <1>3, <1>4, TheoriesInTime

LEMMA TheoriesNextKeeps ==
    ASSUME TheoriesInv, [Thr!Next]_(Thr!vars)
    PROVE  /\ TheoriesInv'
           /\ offer # Thr!NoOffer /\ offer' # offer => VerdictsStand
<1>1. day >= day /\ day \in 1..MaxDay /\ lost \in 0..MaxLost BY DEF TheoriesInv
<1>2. CASE UNCHANGED (Thr!vars) BY <1>1, <1>2, TheoriesInTime DEF Thr!vars
<1>3. ASSUME NEW d \in Thr!Both, NEW c \in Claims, Thr!Mint(d, c)
      PROVE  TheoriesInv' /\ offer' = offer
  BY <1>3, MintKeeps DEF Thr!Mint, Thr!Quietly
<1>4. ASSUME NEW d \in Thr!Both, NEW id \in Thr!Ids(d),
             Thr!Pursue(d, id) \/ Thr!Retire(d, id) \/ Thr!Answer(d, id)
      PROVE  TheoriesInv' /\ offer' = offer
  BY <1>4, SpokenKeeps DEF Thr!Pursue, Thr!Retire, Thr!Answer, Thr!Quietly
<1>5. ASSUME NEW d \in Thr!Both, NEW id \in Thr!Ids(d), NEW member \in Thr!Ids(d),
             Thr!Fold(d, id, member)
      PROVE  TheoriesInv' /\ offer' = offer
  BY <1>5, FoldKeeps DEF Thr!Fold, Thr!Quietly
<1>6. ASSUME NEW d \in Thr!Both, Thr!Offer(d)
      PROVE  TheoriesInv' /\ offer = Thr!NoOffer
  <2>1. Thr!Offered(d) \subseteq Thr!Recent(d) BY DEF Thr!Offered
  <2> QED BY <1>6, <2>1, OfferKeeps DEF Thr!Offer
<1>7. CASE Thr!Lose
  <2>1. lost' \in 0..MaxLost
    BY <1>7, HouseholdAssumption DEF Thr!Lose, TheoriesInv, Thr!TheoriesAssumption
  <2>2. UNCHANGED <<held, met, ops, day>> /\ offer' = Thr!NoOffer BY <1>7 DEF Thr!Lose
  <2> QED BY <1>1, <2>1, <2>2, TheoriesInTime DEF VerdictsStand
<1>8. CASE Thr!Dawn
  <2>1. UNCHANGED <<held, offer, ops>> /\ met' = {} /\ offer' = Thr!NoOffer BY <1>8 DEF Thr!Dawn
  <2>2. day' \in 1..MaxDay /\ day' >= day
    BY <1>1, <1>8, HouseholdAssumption DEF Thr!Dawn, Thr!TheoriesAssumption
  <2>3. lost' \in 0..MaxLost
    BY <1>1, <1>8, HouseholdAssumption DEF Thr!Dawn, Thr!TheoriesAssumption
  <2> QED BY <2>1, <2>2, <2>3, TheoriesInTime
<1> QED BY <1>2, <1>3, <1>4, <1>5, <1>6, <1>7, <1>8, ThrAbsorbKeeps DEF Thr!Next, Thr!vars

LEMMA TheoriesTick ==
    ASSUME TheoriesInv, [Thr!Next]_(Thr!vars)
    PROVE  day' >= day
<1>1. day \in Nat BY DEF TheoriesInv
<1>2. day' = day \/ Thr!Dawn
  BY DEF Thr!Next, Thr!vars, Thr!Mint, Thr!Pursue, Thr!Retire, Thr!Answer, Thr!Fold, Thr!Quietly,
     Thr!Offer, Thr!Absorb, Thr!Lose
<1> QED BY <1>1, <1>2 DEF Thr!Dawn

\* A story whose offers are cut differs from the other in what is offered and
\* lost: the rest of what the doors do is the same.
LEMMA CutIsAlike ==
    /\ Cut!Both = Thr!Both /\ Cut!NoOffer = Thr!NoOffer
    /\ \A d : Cut!Ids(d) = Thr!Ids(d) /\ Cut!Other(d) = Thr!Other(d)
    /\ \A d : Cut!Recent(d) = Thr!Recent(d)
    /\ \A d, c : Cut!Mint(d, c) = Thr!Mint(d, c)
    /\ \A d, id : /\ Cut!Pursue(d, id) = Thr!Pursue(d, id)
                  /\ Cut!Retire(d, id) = Thr!Retire(d, id)
                  /\ Cut!Answer(d, id) = Thr!Answer(d, id)
    /\ \A d, id, member : Cut!Fold(d, id, member) = Thr!Fold(d, id, member)
    /\ Cut!Absorb = Thr!Absorb
<1> USE DEF Cut!Both, Thr!Both, Cut!NoOffer, Thr!NoOffer, Cut!Ids, Thr!Ids, Cut!Other, Thr!Other,
            Cut!Live, Thr!Live, Cut!TERMINAL_STATUSES, Thr!TERMINAL_STATUSES,
            Cut!Terminal, Thr!Terminal, Cut!Later, Thr!Later, Cut!TouchedAt, Thr!TouchedAt,
            Cut!First, Thr!First, Cut!Row, Thr!Row, Cut!Put, Thr!Put, Cut!Has, Thr!Has,
            Cut!Change, Thr!Change, Cut!Did, Thr!Did, Cut!Quietly, Thr!Quietly
<1>1. Cut!Both = Thr!Both /\ Cut!NoOffer = Thr!NoOffer OBVIOUS
<1>2. \A d : Cut!Ids(d) = Thr!Ids(d) /\ Cut!Other(d) = Thr!Other(d) OBVIOUS
<1>3. \A d : Cut!Recent(d) = Thr!Recent(d) BY Zenon DEF Cut!Recent, Thr!Recent
<1>4. \A d, c : Cut!Mint(d, c) = Thr!Mint(d, c) BY Zenon DEF Cut!Mint, Thr!Mint
<1>5. \A t, status : Cut!Became(t, status) = Thr!Became(t, status)
  BY Zenon DEF Cut!Became, Thr!Became
<1>6. \A t, d : Cut!Heard(t, d) = Thr!Heard(t, d) BY Zenon DEF Cut!Heard, Thr!Heard
<1>7. \A d, id : Cut!Pursue(d, id) = Thr!Pursue(d, id)
  BY Zenon DEF Cut!Pursue, Thr!Pursue, Cut!Became, Thr!Became
<1>8. \A d, id : Cut!Retire(d, id) = Thr!Retire(d, id)
  BY SMT DEF Cut!Retire, Thr!Retire, Cut!Became, Thr!Became, Cut!Heard, Thr!Heard
<1>9. \A d, id : Cut!Answer(d, id) = Thr!Answer(d, id)
  BY SMT DEF Cut!Answer, Thr!Answer, Cut!Became, Thr!Became, Cut!Heard, Thr!Heard
<1>10. \A d, id, member : Cut!Fold(d, id, member) = Thr!Fold(d, id, member)
  BY SMT DEF Cut!Fold, Thr!Fold, Cut!Became, Thr!Became
<1>11. Cut!Absorb = Thr!Absorb
  BY Zenon DEF Cut!Absorb, Thr!Absorb, Cut!Before, Thr!Before, Cut!Absorbed, Thr!Absorbed,
         Cut!Counterpart, Thr!Counterpart, Cut!Merged, Thr!Merged, Cut!Known, Thr!Known
<1> QED BY <1>1, <1>2, <1>3, <1>4, <1>7, <1>8, <1>9, <1>10, <1>11

LEMMA CutNextKeeps ==
    ASSUME TheoriesInv, Cut!Next
    PROVE  /\ TheoriesInv' /\ day' >= day
           /\ offer # Thr!NoOffer /\ offer' # offer => VerdictsStand
<1>1. day >= day /\ day \in 1..MaxDay /\ lost \in 0..MaxLost BY DEF TheoriesInv
<1>2. ASSUME NEW d \in Thr!Both, Cut!Offer(d)
      PROVE  TheoriesInv' /\ offer = Thr!NoOffer /\ day' = day
  <2>1. Cut!Offered(d) \subseteq Thr!Recent(d) BY CutIsAlike DEF Cut!Offered
  <2>2. /\ offer = Thr!NoOffer /\ offer' = [to |-> Thr!Other(d), rows |-> Cut!Offered(d)]
        /\ UNCHANGED <<held, met, ops, lost, day>>
    BY <1>2, CutIsAlike, Zenon DEF Cut!Offer
  <2> QED BY <2>1, <2>2, OfferKeeps
<1>3. ~Cut!Lose BY <1>1, HouseholdAssumption DEF Cut!Lose, Thr!TheoriesAssumption
<1>4. ASSUME Cut!Dawn PROVE TheoriesInv' /\ offer = Thr!NoOffer /\ day' >= day
  <2>1. UNCHANGED <<held, offer, ops>> /\ met' = {} /\ offer = Thr!NoOffer
    BY <1>4, CutIsAlike DEF Cut!Dawn
  <2>2. day' \in 1..MaxDay /\ day' >= day
    BY <1>1, <1>4, HouseholdAssumption DEF Cut!Dawn, Thr!TheoriesAssumption
  <2>3. lost' = lost
    <3>1. ~(lost < 0) BY <1>1, HouseholdAssumption DEF Thr!TheoriesAssumption
    <3> QED BY <1>4, <3>1, Zenon DEF Cut!Dawn
  <2> QED BY <1>1, <2>1, <2>2, <2>3, TheoriesInTime
<1>5. CASE Thr!Next
  BY <1>5, TheoriesNextKeeps, TheoriesTick
<1>6. Thr!Next \/ Cut!Dawn \/ \E d \in Thr!Both : Cut!Offer(d)
  BY <1>3, CutIsAlike, Zenon DEF Cut!Next, Thr!Next
<1> QED BY <1>2, <1>4, <1>5, <1>6, <1>1

-----------------------------------------------------------------------------
(* The record of a device.  Facts and sightings are dated by the clock of  *)
(* whoever writes them, so that what is written now is not older than what *)
(* was there, and a merge keeps the later of both.                         *)

FromBefore(rec, time) ==
    rec \in Dev!Cards /\ rec.updatedAt <= time /\ \A a \in Addrs : rec.seen[a] <= time

DevicesInv ==
    /\ DOMAIN card = Dev!Both
    /\ \A d \in Dev!Both : card[d] # None => FromBefore(card[d], day)
    /\ flight # Dev!NoFlight => flight.to \in Dev!Both /\ FromBefore(flight.rec, day)
    /\ version \in {1, 2} /\ acts \in 0..MaxStated /\ day \in 1..MaxDay

LEMMA CardHas ==
    ASSUME NEW rec \in Dev!Cards
    PROVE  /\ rec.updatedAt \in 0..MaxDay /\ rec.updatedAt \in Nat
           /\ rec.seen \in [Addrs -> 0..MaxDay]
           /\ \A a \in Addrs : rec.seen[a] \in 0..MaxDay /\ rec.seen[a] \in Nat
<1>1. MaxDay \in Nat BY HouseholdAssumption DEF Dev!DevicesAssumption
<1>2. rec.updatedAt \in 0..MaxDay /\ rec.seen \in [Addrs -> 0..MaxDay]
  BY DEF Dev!Cards
<1> QED BY <1>1, <1>2

LEMMA DevicesInitInv == Dev!Init => DevicesInv
BY HouseholdAssumption DEF Dev!Init, DevicesInv, Dev!DevicesAssumption

\* A record that is not there yet reads as an empty one, older than any.
LEMMA LoadedIsPast ==
    ASSUME DevicesInv, NEW d \in Dev!Both
    PROVE  FromBefore(Dev!Loaded(d), day)
<1>1. Dev!Default.seen = [a \in Addrs |-> 0] /\ Dev!Default.updatedAt = 0
  BY DEF Dev!Default
<1>2. [a \in Addrs |-> 0] \in [Addrs -> 0..MaxDay] /\ 0 \in 0..MaxDay /\ 0 \in 0..2
  BY HouseholdAssumption DEF Dev!DevicesAssumption
<1>3. Dev!Default \in Dev!Cards BY <1>2 DEF Dev!Cards, Dev!Default
<1>4. FromBefore(Dev!Default, day) BY <1>1, <1>3 DEF FromBefore, DevicesInv
<1> QED BY <1>4 DEF DevicesInv, Dev!Loaded

\* A sighting stays or is pushed out by as many as a door keeps, as in RecordsGrow.
Kept(new, old) ==
    \A a \in Addrs : \/ new[a] >= old[a]
                     \/ Dev!Crowded(new, old[a], Addrs \ {a})
Grows ==
    \A d \in Dev!Both : card[d] # None =>
        card'[d].updatedAt >= card[d].updatedAt /\ Kept(card'[d].seen, card[d].seen)

\* One door's record becomes a later one.
LEMMA SaveKeeps ==
    ASSUME DevicesInv, NEW d \in Dev!Both, NEW rec, Dev!Save(d, rec), FromBefore(rec, day),
           card[d] # None =>
               rec.updatedAt >= card[d].updatedAt /\ Kept(rec.seen, card[d].seen),
           flight' \in {flight, Dev!NoFlight}, UNCHANGED day,
           version' \in {1, 2}, acts' \in 0..MaxStated
    PROVE  DevicesInv' /\ Grows
<1>1. DOMAIN card' = Dev!Both /\ card'[d] = rec /\ \A e \in Dev!Both \ {d} : card'[e] = card[e]
  BY DEF DevicesInv, Dev!Save
<1>2. \A e \in Dev!Both : card'[e] # None => FromBefore(card'[e], day')
  BY <1>1 DEF DevicesInv, FromBefore
<1>3. flight' # Dev!NoFlight => flight'.to \in Dev!Both /\ FromBefore(flight'.rec, day')
  BY DEF DevicesInv, FromBefore
<1>4. ASSUME NEW e \in Dev!Both, card[e] # None, e # d
      PROVE  card'[e].updatedAt >= card[e].updatedAt /\ Kept(card'[e].seen, card[e].seen)
  <2>1. card[e].updatedAt \in Nat /\ \A a \in Addrs : card[e].seen[a] \in Nat
    BY <1>4, CardHas DEF DevicesInv, FromBefore
  <2> QED BY <1>1, <1>4, <2>1 DEF Kept
<1> QED BY <1>1, <1>2, <1>3, <1>4 DEF DevicesInv, Grows

LEMMA StatedIsLater ==
    ASSUME DevicesInv, NEW d \in Dev!Both, NEW rec \in Dev!Cards,
           rec.seen = Dev!Loaded(d).seen
    PROVE  /\ FromBefore(Dev!Stated(rec), day)
           /\ card[d] # None =>
                 /\ Dev!Stated(rec).updatedAt >= card[d].updatedAt
                 /\ Kept(Dev!Stated(rec).seen, card[d].seen)
<1>1. FromBefore(Dev!Loaded(d), day) BY LoadedIsPast
<1>2. day \in 0..MaxDay /\ day \in Nat BY DEF DevicesInv
<1>3. Dev!Stated(rec) \in Dev!Cards /\ Dev!Stated(rec).updatedAt = day
      /\ Dev!Stated(rec).seen = rec.seen
  BY <1>2 DEF Dev!Stated, Dev!Cards
<1>4. \A a \in Addrs : rec.seen[a] \in Nat
  BY CardHas
<1> QED BY <1>1, <1>2, <1>3, <1>4 DEF FromBefore, DevicesInv, Dev!Loaded, Kept

\* What people and the machine itself state.
LEMMA StatedKeeps ==
    ASSUME DevicesInv, NEW d \in Dev!Both,
           \/ Dev!SetName(d) \/ Dev!SetPosture(d) \/ Dev!SetDiscoveredName(d)
           \/ d = DoorB /\ Dev!RefreshSelf
    PROVE  DevicesInv' /\ Grows
<1>1. Dev!Loaded(d) \in Dev!Cards BY LoadedIsPast DEF FromBefore
<1>2. PICK rec \in Dev!Cards :
          rec.seen = Dev!Loaded(d).seen /\ Dev!Save(d, Dev!Stated(rec))
  <2>1. [Dev!Loaded(d) EXCEPT !.name = "given"] \in Dev!Cards
        /\ [Dev!Loaded(d) EXCEPT !.name = "given"].seen = Dev!Loaded(d).seen
    BY <1>1 DEF Dev!Cards
  <2>2. [Dev!Loaded(d) EXCEPT !.posture = "fixed"] \in Dev!Cards
        /\ [Dev!Loaded(d) EXCEPT !.posture = "fixed"].seen = Dev!Loaded(d).seen
    BY <1>1 DEF Dev!Cards
  <2>3. [Dev!Loaded(d) EXCEPT !.found = "host"] \in Dev!Cards
        /\ [Dev!Loaded(d) EXCEPT !.found = "host"].seen = Dev!Loaded(d).seen
    BY <1>1 DEF Dev!Cards
  <2>4. [Dev!Loaded(d) EXCEPT !.os = version] \in Dev!Cards
        /\ [Dev!Loaded(d) EXCEPT !.os = version].seen = Dev!Loaded(d).seen
    <3>1. version \in 0..2 BY DEF DevicesInv
    <3> QED BY <1>1, <3>1 DEF Dev!Cards
  <2> QED BY <2>1, <2>2, <2>3, <2>4
          DEF Dev!SetName, Dev!SetPosture, Dev!SetDiscoveredName, Dev!RefreshSelf
<1>3. UNCHANGED <<version, flight, day>> /\ acts' \in 0..MaxStated
  BY HouseholdAssumption
     DEF Dev!SetName, Dev!SetPosture, Dev!SetDiscoveredName, Dev!RefreshSelf, Dev!Act,
         DevicesInv, Dev!DevicesAssumption
<1>4. FromBefore(Dev!Stated(rec), day) BY <1>2, StatedIsLater
<1>5. version' \in {1, 2} BY <1>3 DEF DevicesInv
<1> QED BY <1>2, <1>3, <1>4, <1>5, StatedIsLater, SaveKeeps

\* A door notes where it saw the device: the facts stay, the sightings become `seen`.
LEMMA SightingKeeps ==
    ASSUME DevicesInv, NEW d \in Dev!Both, NEW seen \in [Addrs -> 0..MaxDay],
           \A x \in Addrs : seen[x] <= day,
           Kept(seen, Dev!Loaded(d).seen),
           Dev!Save(d, [Dev!Loaded(d) EXCEPT !.seen = seen]),
           Dev!Act, UNCHANGED <<version, flight, day>>
    PROVE  DevicesInv' /\ Grows
<1> DEFINE rec == [Dev!Loaded(d) EXCEPT !.seen = seen]
<1>1. Dev!Loaded(d) \in Dev!Cards /\ FromBefore(Dev!Loaded(d), day)
  BY LoadedIsPast DEF FromBefore
<1>2. /\ rec \in Dev!Cards /\ rec.seen = seen
      /\ rec.updatedAt = Dev!Loaded(d).updatedAt /\ rec.updatedAt \in Nat
  BY <1>1, CardHas DEF Dev!Cards
<1>3. FromBefore(rec, day) BY <1>1, <1>2 DEF FromBefore
<1>4. card[d] # None => rec.updatedAt >= card[d].updatedAt /\ Kept(rec.seen, card[d].seen)
  BY <1>2 DEF Dev!Loaded
<1>5. acts' \in 0..MaxStated /\ version' \in {1, 2}
  BY HouseholdAssumption DEF Dev!Act, DevicesInv, Dev!DevicesAssumption
<1>6. Dev!Save(d, rec) OBVIOUS
<1> HIDE DEF rec
<1> QED BY <1>3, <1>4, <1>5, <1>6, SaveKeeps

\* One address seen again, or for the first time: no sighting is older for it.
LEMMA SeenNowIsLater ==
    ASSUME DevicesInv, NEW d \in Dev!Both, NEW a \in Addrs
    PROVE  LET seen == [Dev!Loaded(d).seen EXCEPT ![a] = day]
           IN  /\ seen \in [Addrs -> 0..MaxDay]
               /\ \A x \in Addrs : seen[x] <= day /\ seen[x] >= Dev!Loaded(d).seen[x]
<1>1. FromBefore(Dev!Loaded(d), day) BY LoadedIsPast
<1>2. day \in 0..MaxDay /\ day \in Nat BY DEF DevicesInv
<1>3. /\ Dev!Loaded(d).seen \in [Addrs -> 0..MaxDay]
      /\ \A x \in Addrs : Dev!Loaded(d).seen[x] \in Nat /\ Dev!Loaded(d).seen[x] <= day
  BY <1>1, CardHas DEF FromBefore
<1> QED BY <1>2, <1>3

LEMMA RefreshNetworkKeeps ==
    ASSUME DevicesInv, NEW d \in Dev!Both, NEW a \in Addrs, Dev!RefreshNetwork(d, a)
    PROVE  DevicesInv' /\ Grows
<1> DEFINE seen == [Dev!Loaded(d).seen EXCEPT ![a] = day]
<1>1. /\ seen \in [Addrs -> 0..MaxDay]
      /\ \A x \in Addrs : seen[x] <= day /\ seen[x] >= Dev!Loaded(d).seen[x]
  BY SeenNowIsLater
<1>2. Kept(seen, Dev!Loaded(d).seen) BY <1>1 DEF Kept
<1>3. [Dev!Loaded(d) EXCEPT !.seen[a] = day] = [Dev!Loaded(d) EXCEPT !.seen = seen]
  BY LoadedIsPast DEF FromBefore, Dev!Cards
<1>4. /\ Dev!Save(d, [Dev!Loaded(d) EXCEPT !.seen = seen])
      /\ Dev!Act /\ UNCHANGED <<version, flight, day>>
  BY <1>3 DEF Dev!RefreshNetwork
<1> HIDE DEF seen
<1> QED BY <1>1, <1>2, <1>4, SightingKeeps

\* What a new address pushes out gives way to as many as a record keeps.
LEMMA NoteNetworkKeeps ==
    ASSUME DevicesInv, NEW d \in Dev!Both, NEW a \in Addrs, Dev!NoteNetwork(d, a)
    PROVE  DevicesInv' /\ Grows
<1> DEFINE noted == [Dev!Loaded(d).seen EXCEPT ![a] = day]
           old == Dev!Loaded(d).seen
<1>1. /\ noted \in [Addrs -> 0..MaxDay]
      /\ \A x \in Addrs : noted[x] <= day /\ noted[x] >= old[x]
  BY SeenNowIsLater
<1>2. old \in [Addrs -> 0..MaxDay] BY LoadedIsPast, CardHas DEF FromBefore
<1>3. PICK keep \in Dev!Newest(noted) :
          Dev!Save(d, [Dev!Loaded(d) EXCEPT !.seen = [x \in Addrs |->
                                            IF x \in keep THEN noted[x] ELSE 0]])
  BY DEF Dev!NoteNetwork
<1>4. Dev!Act /\ UNCHANGED <<version, flight, day>> BY DEF Dev!NoteNetwork
<1> DEFINE seen == [x \in Addrs |-> IF x \in keep THEN noted[x] ELSE 0]
<1> HIDE DEF noted, old
<1>5. MaxDay \in Nat /\ day \in Nat
  BY HouseholdAssumption DEF Dev!DevicesAssumption, DevicesInv
<1>6. seen \in [Addrs -> 0..MaxDay] /\ \A x \in Addrs : seen[x] <= day
  BY <1>1, <1>5
<1>7. keep = Addrs
      \/ /\ keep \in SUBSET Addrs /\ Dev!Cardinality(keep) = MaxNetworks
         /\ \A x \in keep, y \in Addrs \ keep : noted[x] >= noted[y]
  BY <1>3 DEF Dev!Newest
<1>8. ASSUME NEW x \in Addrs, x \notin keep
      PROVE  Dev!Crowded(seen, old[x], Addrs \ {x})
  <2>1. keep \in SUBSET (Addrs \ {x}) /\ Dev!Cardinality(keep) = MaxNetworks
    BY <1>7, <1>8
  <2>2. ASSUME NEW b \in keep PROVE seen[b] >= old[x]
    <3>1. b \in Addrs /\ seen[b] = noted[b] BY <2>1
    <3>2. noted[b] >= noted[x] BY <1>7, <1>8
    <3>3. noted[b] \in Nat /\ noted[x] \in Nat /\ old[x] \in Nat /\ noted[x] >= old[x]
      BY <1>1, <1>2, <1>5, <3>1
    <3> QED BY <3>1, <3>2, <3>3
  <2> QED BY <2>1, <2>2 DEF Dev!Crowded
<1>9. Kept(seen, old)
  <2> SUFFICES ASSUME NEW x \in Addrs
               PROVE  seen[x] >= old[x] \/ Dev!Crowded(seen, old[x], Addrs \ {x})
    BY DEF Kept
  <2>1. CASE x \in keep BY <1>1, <2>1
  <2> QED BY <1>8, <2>1
<1>10. Kept(seen, Dev!Loaded(d).seen) BY <1>9 DEF old
<1>11. Dev!Save(d, [Dev!Loaded(d) EXCEPT !.seen = seen]) BY <1>3 DEF noted
<1> HIDE DEF seen
<1> QED BY <1>4, <1>6, <1>10, <1>11, SightingKeeps

\* merge takes the later facts whole and the later of every sighting.
LEMMA MergedIsLater ==
    ASSUME NEW x, NEW y, FromBefore(x, day), FromBefore(y, day), day \in Nat
    PROVE  /\ FromBefore(Dev!Merged(x, y), day)
           /\ Dev!Merged(x, y).updatedAt >= x.updatedAt
           /\ \A a \in Addrs : Dev!Merged(x, y).seen[a] >= x.seen[a]
<1> DEFINE base == IF y.updatedAt > x.updatedAt THEN y ELSE x
<1>1. MaxDay \in Nat BY HouseholdAssumption DEF Dev!DevicesAssumption
<1>2. base \in Dev!Cards /\ base.updatedAt <= day /\ base.updatedAt >= x.updatedAt
  BY CardHas DEF FromBefore
<1>3. \A a \in Addrs : Dev!UnionSeen(x, y)[a] = Dev!Later(x.seen[a], y.seen[a])
  BY DEF Dev!UnionSeen
<1>4. \A a \in Addrs : /\ x.seen[a] \in 0..MaxDay /\ y.seen[a] \in 0..MaxDay
                       /\ x.seen[a] <= day /\ y.seen[a] <= day
  BY CardHas DEF FromBefore
<1>5. \A a \in Addrs : /\ Dev!Later(x.seen[a], y.seen[a]) \in 0..MaxDay
                       /\ Dev!Later(x.seen[a], y.seen[a]) <= day
                       /\ Dev!Later(x.seen[a], y.seen[a]) >= x.seen[a]
  BY <1>1, <1>4 DEF Dev!Later
<1>6. Dev!UnionSeen(x, y) \in [Addrs -> 0..MaxDay]
  BY <1>5 DEF Dev!UnionSeen
<1>7. Dev!Merged(x, y) = [base EXCEPT !.seen = Dev!UnionSeen(x, y)]
  BY DEF Dev!Merged
<1> HIDE DEF base
<1>8. /\ Dev!Merged(x, y) \in Dev!Cards
      /\ Dev!Merged(x, y).updatedAt = base.updatedAt
      /\ Dev!Merged(x, y).seen = Dev!UnionSeen(x, y)
  BY <1>2, <1>6, <1>7 DEF Dev!Cards
<1> QED BY <1>2, <1>3, <1>5, <1>8 DEF FromBefore

LEMMA DevAbsorbKeeps ==
    ASSUME DevicesInv, Dev!Absorb
    PROVE  DevicesInv' /\ Grows
<1> DEFINE d == flight.to
           rec == IF card[d] = None THEN flight.rec ELSE Dev!Merged(card[d], flight.rec)
<1>1. /\ d \in Dev!Both /\ FromBefore(flight.rec, day) /\ day \in Nat
      /\ card[d] # None => FromBefore(card[d], day)
  BY DEF DevicesInv, Dev!Absorb
<1>2. FromBefore(rec, day) /\ (card[d] # None =>
               rec.updatedAt >= card[d].updatedAt /\ Kept(rec.seen, card[d].seen))
  BY <1>1, MergedIsLater DEF Kept
<1>3. Dev!Save(d, rec) /\ flight' = Dev!NoFlight /\ UNCHANGED <<version, acts, day>>
  BY DEF Dev!Absorb
<1>4. version' \in {1, 2} /\ acts' \in 0..MaxStated BY <1>3 DEF DevicesInv
<1> HIDE DEF d, rec
<1> QED BY <1>1, <1>2, <1>3, <1>4, SaveKeeps

\* Time passes, at this door or in another story, and the records stay.
LEMMA RecordsInTime ==
    ASSUME DevicesInv, UNCHANGED <<card, version, acts>>, day' \in 1..MaxDay, day' >= day,
           flight' # Dev!NoFlight => flight'.to \in Dev!Both /\ FromBefore(flight'.rec, day)
    PROVE  DevicesInv' /\ Grows
<1>1. \A rec : FromBefore(rec, day) => FromBefore(rec, day')
  <2> SUFFICES ASSUME NEW rec, FromBefore(rec, day) PROVE FromBefore(rec, day')
    OBVIOUS
  <2>1. rec.updatedAt \in Nat /\ \A a \in Addrs : rec.seen[a] \in Nat
    BY CardHas DEF FromBefore
  <2> QED BY <2>1, HouseholdAssumption DEF FromBefore, DevicesInv, Dev!DevicesAssumption
<1>2. Grows
  <2>1. \A d \in Dev!Both : card[d] # None =>
            card[d].updatedAt \in Nat /\ \A a \in Addrs : card[d].seen[a] \in Nat
    BY CardHas DEF DevicesInv, FromBefore
  <2> QED BY <2>1 DEF Grows, Kept
<1> QED BY <1>1, <1>2 DEF DevicesInv

LEMMA DevicesNextKeeps == DevicesInv /\ [Dev!Next]_(Dev!vars) => DevicesInv' /\ Grows
<1> SUFFICES ASSUME DevicesInv, [Dev!Next]_(Dev!vars) PROVE DevicesInv' /\ Grows
  OBVIOUS
<1>1. day >= day /\ day \in 1..MaxDay BY DEF DevicesInv
<1>2. CASE UNCHANGED (Dev!vars)
  BY <1>1, <1>2, RecordsInTime DEF Dev!vars, DevicesInv, FromBefore
<1>3. ASSUME NEW d \in Dev!Both, Dev!Offer(d) PROVE DevicesInv' /\ Grows
  <2>1. flight'.to \in Dev!Both /\ FromBefore(flight'.rec, day)
    BY <1>3 DEF Dev!Offer, Dev!Other, Dev!Both, DevicesInv
  <2> QED BY <1>1, <1>3, <2>1, RecordsInTime DEF Dev!Offer
<1>4. CASE Dev!Lose BY <1>1, <1>4, RecordsInTime DEF Dev!Lose
<1>5. CASE Dev!Dawn
  <2>1. day' \in 1..MaxDay /\ day' >= day
    BY <1>5, HouseholdAssumption DEF Dev!Dawn, DevicesInv, Dev!DevicesAssumption
  <2> QED BY <1>5, <2>1, RecordsInTime DEF Dev!Dawn
<1>6. CASE Dev!Upgrade
  <2>1. DevicesInv' BY <1>6, HouseholdAssumption
    DEF Dev!Upgrade, Dev!Act, DevicesInv, FromBefore, Dev!DevicesAssumption
  <2>2. \A d \in Dev!Both : card[d] # None =>
            card[d].updatedAt \in Nat /\ \A a \in Addrs : card[d].seen[a] \in Nat
    BY CardHas DEF DevicesInv, FromBefore
  <2> QED BY <1>6, <2>1, <2>2 DEF Dev!Upgrade, Grows, Kept
<1>7. DoorB \in Dev!Both BY DEF Dev!Both
<1> QED BY <1>2, <1>3, <1>4, <1>5, <1>6, <1>7, StatedKeeps, NoteNetworkKeeps,
           RefreshNetworkKeeps, DevAbsorbKeeps
        DEF Dev!Next

-----------------------------------------------------------------------------
(* What is asked, and whom.  Between the start of a tick and what it puts  *)
(* on the screen the registry is joined with what threads were answered,   *)
(* and a need that is not addressed is one whose tick was cut short.       *)

Need == registry["need"]

QuestionsInv ==
    /\ Que!QuestionsTypeOK
    /\ round.at = "shown" => screen # None
    /\ round.at = "address" => Need # None
    /\ round.knew => needAnswered
    /\ Need # None /\ Need.subject = None => round.at = "address" \/ halts > 0
    /\ round.at \in {"coordinate", "shown"} /\ round.knew /\ Need # None
          /\ Need.subject # None => Need.answered

LEMMA QuestionsInitInv == Que!Init => QuestionsInv
<1> SUFFICES ASSUME Que!Init PROVE QuestionsInv
  OBVIOUS
<1>1. "need" \in Que!Questions BY DEF Que!Questions
<1> DEFINE old == [Que!NewRow EXCEPT !.created = 0]
<1>2. old \in Que!Rows /\ old.lastAsked <= hour
  <2>1. 0 \in 0..MaxHour /\ 1 \in 0..MaxHour /\ 0 \in 0..1 /\ hour = 1
    BY HouseholdAssumption DEF Que!Init, Que!QuestionsAssumption
  <2>2. Que!NewRow \in Que!Rows /\ Que!NewRow.lastAsked = 0
    BY <2>1 DEF Que!NewRow, Que!Rows
  <2>3. old \in Que!Rows /\ old.lastAsked = 0
    BY <2>1, <2>2 DEF Que!Rows
  <2> HIDE DEF old
  <2> QED BY <2>1, <2>3
<1>5. PICK left \in {None, old} :
          registry = [q \in Que!Questions |-> IF q = "idea" THEN left ELSE None]
  BY DEF Que!Init
<1> HIDE DEF old
<1>6. registry \in [Que!Questions -> Que!Rows \cup {None}] /\ registry["need"] = None
  BY <1>1, <1>2, <1>5
<1>7. \A q \in Que!Questions : registry[q] # None => registry[q].lastAsked <= hour
  BY <1>2, <1>5
<1>3. /\ round \in [at : {"idle", "muse", "address", "coordinate", "shown"}, knew : BOOLEAN]
      /\ round.at = "idle" /\ round.knew = FALSE
  BY DEF Que!Init, Que!Resting
<1>4. /\ screen = None /\ needAnswered = FALSE /\ here = {}
      /\ visits \in 0..MaxVisits /\ halts \in 0..MaxHalts /\ hour \in 1..MaxHour
  BY HouseholdAssumption DEF Que!Init, Que!QuestionsAssumption
<1> QED BY <1>3, <1>4, <1>6, <1>7 DEF QuestionsInv, Need, Que!QuestionsTypeOK

\* A row of the registry is written over by one of its kind.
LEMMA UpdateIsTyped ==
    ASSUME Que!QuestionsTypeOK, NEW q \in Que!Questions, NEW row \in Que!Rows,
           Que!Update(q, row), row.lastAsked <= hour, UNCHANGED <<screen, hour>>
    PROVE  /\ registry' \in [Que!Questions -> Que!Rows \cup {None}]
           /\ \A r \in Que!Questions : registry'[r] # None => registry'[r].lastAsked <= hour'
           /\ screen' \in Que!Questions \cup {None} /\ (screen' # None => registry'[screen'] # None)
           /\ registry'[q] = row /\ row # None
           /\ \A r \in Que!Questions \ {q} : registry'[r] = registry[r]
BY HouseholdAssumption DEF Que!QuestionsTypeOK, Que!Update, Que!QuestionsAssumption

\* A question is formed and addressed.
LEMMA AdmitKeeps ==
    ASSUME QuestionsInv, Que!AdmitIdea \/ Que!AdmitNeed \/ Que!Address
    PROVE  QuestionsInv' /\ screen' = screen
<1> USE DEF QuestionsInv, Need
<1>1. /\ {"need", "idea"} \subseteq Que!Questions /\ hour \in Nat /\ hour \in 0..MaxHour
      /\ 0 \in 0..MaxHour
  BY HouseholdAssumption
     DEF Que!Questions, Que!QuestionsTypeOK, Que!QuestionsAssumption
<1>2. Que!NewRow \in Que!Rows /\ Que!NewRow.lastAsked <= hour
  BY <1>1 DEF Que!NewRow, Que!Rows
<1>3. UNCHANGED <<screen, needAnswered, here, visits, halts, hour>>
  BY DEF Que!AdmitIdea, Que!AdmitNeed, Que!Address
<1>4. CASE Que!AdmitIdea
  <2>1. Que!Update("idea", Que!NewRow) /\ round' = round BY <1>4 DEF Que!AdmitIdea
  <2>2. registry'["need"] = registry["need"] BY <1>1, <1>2, <1>3, <2>1, UpdateIsTyped
  <2>3. Que!QuestionsTypeOK'
    BY <1>1, <1>2, <1>3, <2>1, UpdateIsTyped DEF Que!QuestionsTypeOK
  <2> QED BY <1>3, <2>1, <2>2, <2>3
<1>5. CASE Que!AdmitNeed
  <2>1. Que!Update("need", Que!NewRow) /\ round' = [round EXCEPT !.at = "address"]
    BY <1>5 DEF Que!AdmitNeed
  <2>2. round'.at = "address" /\ round'.knew = round.knew
        /\ round' \in [at : {"idle", "muse", "address", "coordinate", "shown"}, knew : BOOLEAN]
    BY <2>1 DEF Que!QuestionsTypeOK
  <2>3. Que!QuestionsTypeOK' /\ registry'["need"] # None
    BY <1>1, <1>2, <1>3, <2>1, <2>2, UpdateIsTyped DEF Que!QuestionsTypeOK
  <2> QED BY <1>3, <2>2, <2>3
<1>6. CASE Que!Address
  <2> DEFINE row == [registry["need"] EXCEPT !.subject = Her]
  <2>1. Que!Update("need", row) /\ round' = [round EXCEPT !.at = "muse"] /\ round.at = "address"
    BY <1>6 DEF Que!Address
  <2>2. round'.at = "muse" /\ round'.knew = round.knew
        /\ round' \in [at : {"idle", "muse", "address", "coordinate", "shown"}, knew : BOOLEAN]
    BY <2>1 DEF Que!QuestionsTypeOK
  <2>3. registry["need"] \in Que!Rows /\ registry["need"].lastAsked <= hour
    BY <1>1, <2>1 DEF Que!QuestionsTypeOK
  <2>4. row \in Que!Rows /\ row.lastAsked <= hour /\ row.subject = Her
    BY <2>3 DEF Que!Rows
  <2> HIDE DEF row
  <2>5. Que!QuestionsTypeOK' /\ registry'["need"] = row
    BY <1>1, <1>3, <2>1, <2>2, <2>4, UpdateIsTyped DEF Que!QuestionsTypeOK
  <2>6. Her # None
    BY HouseholdAssumption DEF Que!QuestionsAssumption, Que!People
  <2> QED BY <1>3, <2>2, <2>4, <2>5, <2>6
<1> QED BY <1>3, <1>4, <1>5, <1>6

LEMMA BackfillKeeps ==
    ASSUME QuestionsInv, Que!Backfill
    PROVE  QuestionsInv' /\ screen' = screen
<1> USE DEF QuestionsInv, Need
<1>1. /\ "need" \in Que!Questions /\ hour \in Nat /\ hour \in 0..MaxHour
      /\ 0 \in 0..MaxHour
  BY HouseholdAssumption
     DEF Que!Questions, Que!QuestionsTypeOK, Que!QuestionsAssumption
<1>2. Que!NewRow \in Que!Rows /\ Que!NewRow.lastAsked <= hour
  BY <1>1 DEF Que!NewRow, Que!Rows
<1>3. /\ UNCHANGED <<screen, needAnswered, here, visits, halts, hour>> /\ round.at = "muse"
      /\ round' = [round EXCEPT !.at = "coordinate"]
  BY DEF Que!Backfill
<1> DEFINE Gone(q) == [registry[q] EXCEPT !.retired = TRUE]
<1>11. PICK purged \in {hour > LastTalk, TRUE} :
          registry' = [q \in Que!Questions |->
              IF q = "root" /\ registry[q] = None THEN Que!NewRow
              ELSE IF Que!Orphan(q) /\ purged THEN Gone(q) ELSE Que!Backfilled(q)]
  BY DEF Que!Backfill
<1>12. ASSUME NEW q \in Que!Questions, Que!Orphan(q)
       PROVE  Gone(q) \in Que!Rows /\ Gone(q).lastAsked <= hour /\ registry[q] # None
  <2>1. registry[q] \in Que!Rows /\ registry[q] # None /\ registry[q].lastAsked <= hour
    BY <1>12 DEF Que!Orphan, Que!QuestionsTypeOK
  <2> QED BY <2>1 DEF Que!Rows
<1> HIDE DEF Gone
<1>4. round'.at = "coordinate" /\ round'.knew = round.knew
      /\ round' \in [at : {"idle", "muse", "address", "coordinate", "shown"}, knew : BOOLEAN]
  BY <1>3 DEF Que!QuestionsTypeOK
<1>5. ASSUME NEW row \in Que!Rows
      PROVE  /\ Que!RecordedAnswered(row) \in Que!Rows
             /\ Que!RecordedAnswered(row).lastAsked = hour /\ Que!RecordedAnswered(row).answered
             /\ Que!RecordedAnswered(row).subject = row.subject
  <2>1. Que!RecordedAnswered(row) = [row EXCEPT !.answered = TRUE, !.lastAsked = hour]
    BY DEF Que!RecordedAnswered
  <2> QED BY <1>1, <2>1 DEF Que!Rows
<1>6. None \notin Que!Rows BY HouseholdAssumption DEF Que!QuestionsAssumption
<1>7. ASSUME NEW q \in Que!Questions
      PROVE  /\ Que!Backfilled(q) \in Que!Rows \cup {None}
             /\ Que!Backfilled(q) # None => Que!Backfilled(q).lastAsked <= hour
             /\ Que!Backfilled(q) # None <=> registry[q] # None
  BY <1>1, <1>5, <1>6 DEF Que!Backfilled, Que!QuestionsTypeOK
<1>8. Que!QuestionsTypeOK'
  <2>1. registry' \in [Que!Questions -> Que!Rows \cup {None}] BY <1>2, <1>7, <1>11, <1>12
  <2>2. \A q \in Que!Questions : registry'[q] # None => registry'[q].lastAsked <= hour
    BY <1>2, <1>7, <1>11, <1>12
  <2>3. \A q \in Que!Questions : registry[q] # None => registry'[q] # None
    BY <1>2, <1>6, <1>7, <1>11, <1>12
  <2> QED BY <1>3, <1>4, <2>1, <2>2, <2>3 DEF Que!QuestionsTypeOK
<1>9. registry'["need"] = Que!Backfilled("need") BY <1>1, <1>11 DEF Que!Orphan
<1>10. /\ Que!Backfilled("need") # None => Que!Backfilled("need").subject = registry["need"].subject
       /\ Que!Backfilled("need") # None /\ registry["need"].subject # None /\ needAnswered
             => Que!Backfilled("need").answered
  BY <1>1, <1>5, <1>7 DEF Que!Backfilled, Que!QuestionsTypeOK
<1> QED BY <1>1, <1>3, <1>4, <1>7, <1>8, <1>9, <1>10

\* A row is written over and keeps what it is about and whether it was answered.
LEMMA RowChangeKeeps ==
    ASSUME QuestionsInv, NEW q \in Que!Questions, NEW row \in Que!Rows, Que!Update(q, row),
           row.lastAsked <= hour, registry[q] # None,
           row.subject = registry[q].subject, registry[q].answered => row.answered,
           round' \in {round, Que!Resting}, needAnswered' \in BOOLEAN,
           needAnswered => needAnswered', UNCHANGED <<screen, here, visits, halts, hour>>,
           round.at # "address"
    PROVE  QuestionsInv' /\ screen' = screen
<1> USE DEF QuestionsInv, Need
<1>1. /\ Que!Resting \in [at : {"idle", "muse", "address", "coordinate", "shown"}, knew : BOOLEAN]
      /\ Que!Resting.at = "idle" /\ Que!Resting.knew = FALSE /\ "need" \in Que!Questions
  BY DEF Que!Resting, Que!Questions
<1>2. /\ Que!QuestionsTypeOK' /\ registry'[q] = row /\ row # None
      /\ \A r \in Que!Questions \ {q} : registry'[r] = registry[r]
  BY <1>1, UpdateIsTyped DEF Que!QuestionsTypeOK
<1>3. /\ registry'["need"] # None => registry["need"] # None
      /\ registry'["need"] # None => registry'["need"].subject = registry["need"].subject
      /\ registry'["need"] # None /\ registry["need"].answered => registry'["need"].answered
      /\ registry["need"] # None => registry'["need"] # None
  BY <1>1, <1>2
<1> QED BY <1>1, <1>2, <1>3

LEMMA RecordShownKeeps ==
    ASSUME QuestionsInv, Que!RecordShown \/ Que!CoordinateShown
    PROVE  QuestionsInv' /\ screen' = screen
<1> USE DEF QuestionsInv
<1>1. screen \in Que!Questions /\ screen # None /\ registry[screen] \in Que!Rows
      /\ registry[screen] # None /\ registry[screen].lastAsked <= hour /\ hour \in 0..MaxHour
      /\ hour <= hour
  <2>1. screen # None BY DEF Que!RecordShown, Que!CoordinateShown
  <2>2. hour \in 0..MaxHour /\ hour <= hour
    BY HouseholdAssumption DEF Que!QuestionsTypeOK, Que!QuestionsAssumption
  <2> QED BY <2>1, <2>2 DEF Que!QuestionsTypeOK
<1>2. UNCHANGED <<screen, needAnswered, here, visits, halts, hour>> /\ round' = Que!Resting
      /\ round.at # "address"
  BY DEF Que!RecordShown, Que!CoordinateShown
<1>3. here \subseteq Que!People BY DEF Que!QuestionsTypeOK
<1>4. PICK row \in Que!Rows :
          /\ Que!Update(screen, row) /\ row.lastAsked <= hour
          /\ row.subject = registry[screen].subject /\ row.answered = registry[screen].answered
  <2>1. CASE Que!RecordShown
    <3>1. PICK p \in Que!Routed(registry[screen].owner, registry[screen].subject) :
             Que!Update(screen, [registry[screen] EXCEPT !.asked = TRUE, !.lastAsked = hour, !.owner = p])
      BY <2>1 DEF Que!RecordShown
    <3>2. p \in Que!People BY <1>3, <3>1 DEF Que!Routed
    <3> DEFINE row == [registry[screen] EXCEPT !.asked = TRUE, !.lastAsked = hour, !.owner = p]
    <3>3. row \in Que!Rows /\ row.lastAsked = hour
          /\ row.subject = registry[screen].subject /\ row.answered = registry[screen].answered
      BY <1>1, <3>2 DEF Que!Rows
    <3> QED BY <1>1, <3>1, <3>3
  <2>2. CASE Que!CoordinateShown
    <3>1. PICK p \in Que!Readdressed(screen) :
             Que!Update(screen, [registry[screen] EXCEPT !.owner = p])
      BY <2>2 DEF Que!CoordinateShown
    <3>2. p \in Que!People \cup {None}
      <4>1. registry[screen].owner \in Que!People \cup {None} BY <1>1 DEF Que!Rows
      <4> QED BY <1>3, <3>1, <4>1 DEF Que!Readdressed, Que!Routed
    <3> DEFINE row == [registry[screen] EXCEPT !.owner = p]
    <3>3. row \in Que!Rows /\ row.lastAsked = registry[screen].lastAsked
          /\ row.subject = registry[screen].subject /\ row.answered = registry[screen].answered
      BY <1>1, <3>2 DEF Que!Rows
    <3> QED BY <1>1, <3>1, <3>3
  <2> QED BY <2>1, <2>2
<1>5. needAnswered' \in BOOLEAN /\ (needAnswered => needAnswered')
  BY <1>2 DEF Que!QuestionsTypeOK
<1>6. registry[screen].answered => row.answered BY <1>4
<1> QED BY <1>1, <1>2, <1>4, <1>5, <1>6, RowChangeKeeps

LEMMA SaidKeeps ==
    ASSUME QuestionsInv, Que!AnswerTheThread \/ Que!WaveOff
    PROVE  QuestionsInv' /\ screen' = screen
<1> USE DEF QuestionsInv
<1>1. /\ "need" \in Que!Questions /\ registry["need"] \in Que!Rows
      /\ registry["need"] # None /\ registry["need"].lastAsked <= hour
      /\ hour \in 0..MaxHour /\ hour <= hour
  BY HouseholdAssumption
     DEF Que!Questions, Que!QuestionsTypeOK, Que!AnswerTheThread, Que!WaveOff,
         Que!QuestionsAssumption
<1>2. CASE Que!AnswerTheThread
  <2> DEFINE row == IF registry["need"].subject # None
                    THEN [registry["need"] EXCEPT !.answered = TRUE, !.lastAsked = hour]
                    ELSE registry["need"]
  <2>1. Que!Update("need", row) /\ needAnswered' = TRUE /\ round' = round
        /\ UNCHANGED <<screen, here, visits, halts, hour>> /\ round.at # "address"
    BY <1>2 DEF Que!AnswerTheThread, Que!RecordedAnswered, Que!Apart
  <2>2. row \in Que!Rows /\ row.lastAsked <= hour /\ row.subject = registry["need"].subject
        /\ (registry["need"].answered => row.answered)
    <3>1. CASE registry["need"].subject = None BY <1>1, <3>1
    <3>2. CASE registry["need"].subject # None
      <4>1. row = [registry["need"] EXCEPT !.answered = TRUE, !.lastAsked = hour] BY <3>2
      <4> HIDE DEF row
      <4>2. row \in Que!Rows /\ row.lastAsked = hour /\ row.subject = registry["need"].subject
            /\ row.answered
        BY <1>1, <4>1 DEF Que!Rows
      <4> QED BY <1>1, <4>2
    <3> QED BY <3>1, <3>2
  <2> HIDE DEF row
  <2> QED BY <1>1, <2>1, <2>2, RowChangeKeeps
<1>3. CASE Que!WaveOff
  <2> DEFINE row == [registry["need"] EXCEPT !.waved = 1, !.lastWaved = hour]
  <2>1. Que!Update("need", row) /\ UNCHANGED <<needAnswered, round>>
        /\ UNCHANGED <<screen, here, visits, halts, hour>> /\ round.at # "address"
    <3>1. Que!Update("need", [registry["need"] EXCEPT !.waved = @ + 1, !.lastWaved = hour])
          /\ registry["need"].waved = 0
      BY <1>3 DEF Que!WaveOff
    <3> QED BY <1>3, <3>1 DEF Que!WaveOff
  <2>2. row \in Que!Rows /\ row.lastAsked <= hour /\ row.subject = registry["need"].subject
        /\ row.answered = registry["need"].answered
    <3>1. 1 \in 0..1 OBVIOUS
    <3>2. row \in Que!Rows BY <1>1, <3>1 DEF Que!Rows
    <3>3. row.lastAsked = registry["need"].lastAsked /\ row.subject = registry["need"].subject
          /\ row.answered = registry["need"].answered
      BY <1>1 DEF Que!Rows
    <3> QED BY <1>1, <3>2, <3>3
  <2> HIDE DEF row
  <2>3. needAnswered' \in BOOLEAN /\ (needAnswered => needAnswered')
    BY <2>1 DEF Que!QuestionsTypeOK
  <2>4. registry["need"].answered => row.answered BY <2>2
  <2> QED BY <1>1, <2>1, <2>2, <2>3, <2>4, RowChangeKeeps
<1> QED BY <1>2, <1>3

\* What leaves the registry alone, and the screen too unless it is cleared.
LEMMA ElsewhereKeeps ==
    ASSUME QuestionsInv,
           \/ Que!Begin \/ Que!CoordinateNothing \/ Que!AnswerAtConsole \/ Que!AnswerBySync
           \/ Que!ComeOrGo \/ Que!Stop \/ Que!Elapse
    PROVE  QuestionsInv' /\ screen' \in {screen, None}
<1> USE DEF QuestionsInv, Need
<1>1. registry' = registry /\ screen' \in {screen, None}
  BY DEF Que!Begin, Que!CoordinateNothing, Que!AnswerAtConsole, Que!AnswerBySync,
         Que!ComeOrGo, Que!Stop, Que!Elapse
<1>2. Que!QuestionsTypeOK' /\ halts' >= halts
  <2>1. halts' \in 0..MaxHalts /\ halts' >= halts /\ visits' \in 0..MaxVisits
    BY HouseholdAssumption
       DEF Que!QuestionsTypeOK, Que!Begin, Que!CoordinateNothing, Que!AnswerAtConsole,
           Que!AnswerBySync, Que!ComeOrGo, Que!Stop, Que!Elapse, Que!QuestionsAssumption
  <2>2. hour' \in 1..MaxHour /\ hour' >= hour
    BY HouseholdAssumption
       DEF Que!QuestionsTypeOK, Que!Begin, Que!CoordinateNothing, Que!AnswerAtConsole,
           Que!AnswerBySync, Que!ComeOrGo, Que!Stop, Que!Elapse, Que!QuestionsAssumption
  <2>3. here' \subseteq Que!People /\ needAnswered' \in BOOLEAN
    BY DEF Que!QuestionsTypeOK, Que!Begin, Que!CoordinateNothing, Que!AnswerAtConsole,
           Que!AnswerBySync, Que!ComeOrGo, Que!Stop, Que!Elapse
  <2>4. round' \in [at : {"idle", "muse", "address", "coordinate", "shown"}, knew : BOOLEAN]
    <3>1. Que!Resting \in [at : {"idle", "muse", "address", "coordinate", "shown"}, knew : BOOLEAN]
      BY DEF Que!Resting
    <3>2. needAnswered \in BOOLEAN BY DEF Que!QuestionsTypeOK
    <3>3. round' \in {round, Que!Resting, [at |-> "muse", knew |-> needAnswered]}
      BY DEF Que!Begin, Que!CoordinateNothing, Que!AnswerAtConsole,
             Que!AnswerBySync, Que!ComeOrGo, Que!Stop, Que!Elapse
    <3> QED BY <3>1, <3>2, <3>3 DEF Que!QuestionsTypeOK
  <2>5. \A q \in Que!Questions : registry[q] # None => registry[q].lastAsked <= hour'
    <3>1. \A q \in Que!Questions : registry[q] # None =>
              registry[q].lastAsked \in Nat /\ registry[q].lastAsked <= hour
      BY HouseholdAssumption DEF Que!QuestionsTypeOK, Que!Rows, Que!QuestionsAssumption
    <3>2. hour \in Nat /\ hour' \in Nat BY <2>2 DEF Que!QuestionsTypeOK
    <3> QED BY <2>2, <3>1, <3>2
  <2> QED BY <1>1, <2>1, <2>2, <2>3, <2>4, <2>5 DEF Que!QuestionsTypeOK
<1>3. CASE Que!Begin
  <2>1. round'.at = "muse" /\ round'.knew = needAnswered /\ round.at = "idle"
        /\ UNCHANGED <<screen, needAnswered, halts>>
    BY <1>3 DEF Que!Begin
  <2> QED BY <1>1, <1>2, <2>1
<1>4. CASE Que!CoordinateNothing \/ Que!Stop
  <2>1. round'.at = "idle" /\ round'.knew = FALSE /\ UNCHANGED <<screen, needAnswered>>
        /\ (halts' > 0 \/ (round.at # "address" /\ halts' = halts))
    <3>1. halts \in Nat BY HouseholdAssumption DEF Que!QuestionsTypeOK, Que!QuestionsAssumption
    <3>2. Que!Resting.at = "idle" /\ Que!Resting.knew = FALSE BY DEF Que!Resting
    <3>3. CASE Que!CoordinateNothing BY <3>2, <3>3 DEF Que!CoordinateNothing
    <3>4. CASE Que!Stop
      <4>1. halts' > 0 BY <3>1, <3>4 DEF Que!Stop
      <4> QED BY <3>2, <3>4, <4>1 DEF Que!Stop
    <3> QED BY <1>4, <3>3, <3>4
  <2> QED BY <1>1, <1>2, <2>1
<1>5. CASE Que!AnswerAtConsole \/ Que!AnswerBySync \/ Que!ComeOrGo \/ Que!Elapse
  <2>1. round' = round /\ (needAnswered => needAnswered') /\ halts' = halts
        /\ round.at # "shown"
    BY <1>5 DEF Que!AnswerAtConsole, Que!AnswerBySync, Que!ComeOrGo, Que!Elapse, Que!Apart
  <2> QED BY <1>1, <1>2, <2>1
<1> QED BY <1>1, <1>3, <1>4, <1>5

\* What a tick may put on the screen.
MayBeAsked ==
    /\ ~round.knew \/ (halts > 0 /\ Need.subject = None)
    /\ \/ Her \in here \/ hour - Need.created > Hold
       \/ halts > 0 /\ Need.subject = None

LEMMA ShowKeeps ==
    ASSUME QuestionsInv, Que!Show
    PROVE  QuestionsInv' /\ (screen' = "need" => MayBeAsked)
<1> USE DEF QuestionsInv
<1>1. PICK q \in Que!Askable : screen' = q BY DEF Que!Show
<1>2. q \in Que!Questions /\ Que!Available(q) /\ Que!NotHeld(q) BY <1>1 DEF Que!Askable
<1>3. UNCHANGED <<registry, needAnswered, here, visits, halts, hour>> /\ round.at = "coordinate"
      /\ round' = [round EXCEPT !.at = "shown"]
  BY DEF Que!Show
<1>4. round'.at = "shown" /\ round'.knew = round.knew
      /\ round' \in [at : {"idle", "muse", "address", "coordinate", "shown"}, knew : BOOLEAN]
  BY <1>3 DEF Que!QuestionsTypeOK
<1>5. registry[q] # None /\ q # None
  BY <1>2, HouseholdAssumption DEF Que!Available, Que!QuestionsAssumption
<1>6. Que!QuestionsTypeOK' BY <1>1, <1>2, <1>3, <1>4, <1>5 DEF Que!QuestionsTypeOK
<1>7. QuestionsInv' BY <1>1, <1>3, <1>4, <1>5, <1>6 DEF Need
<1>8. ASSUME q = "need" PROVE MayBeAsked
  <2>1. ~registry["need"].answered BY <1>2, <1>8 DEF Que!Available
  <2>2. registry["need"] # None /\ registry["need"].subject \in {Her, None}
    BY <1>2, <1>5, <1>8 DEF Que!QuestionsTypeOK, Que!Rows
  <2>3. registry["need"].subject = None => halts > 0 BY <1>3, <2>2 DEF Need
  <2>4. round.knew => registry["need"].subject = None
    BY <1>3, <2>1, <2>2 DEF Need
  <2>5. \/ registry["need"].subject = None \/ registry["need"].subject \in here
        \/ hour - registry["need"].created > Hold
    BY <1>2, <1>8 DEF Que!NotHeld
  <2> QED BY <2>2, <2>3, <2>4, <2>5 DEF MayBeAsked, Need
<1> QED BY <1>1, <1>7, <1>8

LEMMA QuestionsNextKeeps ==
    ASSUME QuestionsInv, [Que!Next]_asking
    PROVE  QuestionsInv' /\ (screen' = "need" /\ screen # "need" => MayBeAsked)
<1>1. CASE UNCHANGED asking
  BY <1>1 DEF asking, QuestionsInv, Need, Que!QuestionsTypeOK
<1>2. None # "need" BY HouseholdAssumption DEF Que!QuestionsAssumption, Que!Questions
<1> QED BY <1>1, <1>2, AdmitKeeps, BackfillKeeps, RecordShownKeeps, SaidKeeps, ElsewhereKeeps,
           ShowKeeps, Zenon DEF Que!Next, Que!Tick

-----------------------------------------------------------------------------
(* The household.  Each story leaves the state of the others alone but for *)
(* the clock, which the theories and the records of devices share and only *)
(* ever move forward.                                                      *)

HouseholdInv == ConsultInv /\ BriefsInv /\ TheoriesInv /\ DevicesInv /\ QuestionsInv

LEMMA HouseholdInitInv == MCInit => HouseholdInv
BY ConsultInitInv, BriefsInitInv, TheoriesInitInv, DevicesInitInv, QuestionsInitInv
   DEF MCInit, HouseholdInv

LEMMA ConsultsRest == ConsultInv /\ UNCHANGED consults => ConsultInv'
BY ConsultNextKeeps

LEMMA BriefsRest == BriefsInv /\ UNCHANGED briefs => BriefsInv'
BY BriefsNextKeeps

LEMMA QuestionsRest == QuestionsInv /\ UNCHANGED asking => QuestionsInv' /\ screen' = screen
BY QuestionsNextKeeps DEF asking

LEMMA RecordsTick ==
    ASSUME DevicesInv, [Dev!Next]_(Dev!vars)
    PROVE  day' >= day
<1>1. day \in Nat BY DEF DevicesInv
<1>2. day' = day \/ Dev!Dawn
  BY DEF Dev!Next, Dev!vars, Dev!SetName, Dev!SetPosture, Dev!SetDiscoveredName, Dev!Upgrade,
     Dev!RefreshSelf, Dev!NoteNetwork, Dev!RefreshNetwork, Dev!Offer, Dev!Absorb, Dev!Lose
<1> QED BY <1>1, <1>2 DEF Dev!Dawn

\* One step of the household, and what it says of each part.
LEMMA HouseholdStep ==
    ASSUME HouseholdInv, [MCNext]_all
    PROVE  /\ HouseholdInv'
           /\ offer # Thr!NoOffer /\ offer' # offer => VerdictsStand
           /\ Grows
           /\ screen' = "need" /\ screen # "need" => MayBeAsked
<1> USE DEF HouseholdInv
<1>1. day \in 1..MaxDay /\ lost \in 0..MaxLost /\ day >= day
      /\ (flight # Dev!NoFlight => flight.to \in Dev!Both /\ FromBefore(flight.rec, day))
  BY DEF TheoriesInv, DevicesInv
<1>2. CASE Threads(Thr!Next)
  <2>1. Thr!Next /\ UNCHANGED <<records, asking, consults, briefs>> BY <1>2 DEF Threads
  <2>2. TheoriesInv' /\ (offer # Thr!NoOffer /\ offer' # offer => VerdictsStand) /\ day' >= day
    BY <2>1, TheoriesNextKeeps, TheoriesTick
  <2>3. day' \in 1..MaxDay BY <2>2 DEF TheoriesInv
  <2>4. DevicesInv' /\ Grows
    BY <1>1, <2>1, <2>2, <2>3, RecordsInTime DEF records
  <2> QED BY <2>1, <2>2, <2>4, ConsultsRest, BriefsRest, QuestionsRest
<1>9. CASE Purge(Cut!Next)
  <2>1. Cut!Next /\ UNCHANGED <<records, asking, consults, briefs>> BY <1>9 DEF Purge
  <2>2. TheoriesInv' /\ (offer # Thr!NoOffer /\ offer' # offer => VerdictsStand) /\ day' >= day
    BY <2>1, CutNextKeeps
  <2>3. day' \in 1..MaxDay BY <2>2 DEF TheoriesInv
  <2>4. DevicesInv' /\ Grows
    BY <1>1, <2>1, <2>2, <2>3, RecordsInTime DEF records
  <2> QED BY <2>1, <2>2, <2>4, ConsultsRest, BriefsRest, QuestionsRest
<1>3. CASE Records(Dev!Next)
  <2>1. Dev!Next /\ UNCHANGED <<threads, asking, consults, briefs>> BY <1>3 DEF Records
  <2>2. DevicesInv' /\ Grows /\ day' >= day
    BY <2>1, DevicesNextKeeps, RecordsTick
  <2>3. day' \in 1..MaxDay BY <2>2 DEF DevicesInv
  <2>4. TheoriesInv' /\ offer' = offer
    BY <1>1, <2>1, <2>2, <2>3, TheoriesInTime DEF threads
  <2> QED BY <2>1, <2>2, <2>4, ConsultsRest, BriefsRest, QuestionsRest
<1>4. ASSUME UNCHANGED <<day, threads, records>>
      PROVE  TheoriesInv' /\ offer' = offer /\ DevicesInv' /\ Grows
  <2>1. TheoriesInv' /\ offer' = offer BY <1>1, <1>4, TheoriesInTime DEF threads
  <2>2. DevicesInv' /\ Grows BY <1>1, <1>4, RecordsInTime DEF records
  <2> QED BY <2>1, <2>2
<1>5. CASE Asking(AskingStep)
  <2>1. Que!Next /\ UNCHANGED <<day, threads, records, consults, briefs>> BY <1>5 DEF Asking, AskingStep
  <2> QED BY <1>4, <2>1, QuestionsNextKeeps, ConsultsRest, BriefsRest
<1>6. CASE Consults(Con!ConsultNext)
  <2>1. Con!ConsultNext /\ UNCHANGED <<day, threads, records, asking, briefs>>
    BY <1>6 DEF Consults
  <2> QED BY <1>4, <2>1, ConsultNextKeeps, QuestionsRest, BriefsRest
<1>7. CASE Deciding(Bri!Next)
  <2>1. Bri!Next /\ UNCHANGED <<day, threads, records, asking, consults>>
    BY <1>7 DEF Deciding
  <2> QED BY <1>4, <2>1, BriefsNextKeeps, QuestionsRest, ConsultsRest
<1>8. CASE UNCHANGED all
  <2>1. UNCHANGED <<day, threads, records>> /\ UNCHANGED asking /\ UNCHANGED consults
        /\ UNCHANGED briefs
    BY <1>8 DEF all
  <2> QED BY <1>4, <2>1, QuestionsRest, ConsultsRest, BriefsRest
<1> QED BY <1>2, <1>3, <1>5, <1>6, <1>7, <1>8, <1>9 DEF MCNext

THEOREM HouseholdInvariant == MCSpec => []HouseholdInv
<1>1. HouseholdInv /\ [MCNext]_all => HouseholdInv' BY HouseholdStep
<1> QED BY <1>1, HouseholdInitInv, PTL DEF MCSpec

\* Every part keeps its shape: no row, record or answer is from the future,
\* what is on the screen is on the registry, a slot has one holder.
THEOREM HouseholdIsTyped == MCSpec => []HouseholdTypeOK
<1>1. TheoriesInv => Thr!TheoriesTypeOK
  <2> SUFFICES ASSUME TheoriesInv PROVE Thr!TheoriesTypeOK
    OBVIOUS
  <2>1. ASSUME NEW d \in Thr!Both, NEW k \in DOMAIN held[d]
        PROVE  held[d][k] \in Theory /\ Timely(held[d][k], day)
    BY DEF TheoriesInv, Store
  <2>2. offer.to \in Thr!Both \cup {"nobody"} BY DEF TheoriesInv, Thr!NoOffer
  <2>3. day \in Nat BY DEF TheoriesInv
  <2>4. ASSUME NEW t \in Theory, Timely(t, day)
        PROVE  /\ t.claim \in Claims /\ t.status \in Thr!Live \cup Thr!TERMINAL_STATUSES
               /\ t.id \in Nat \ {0} /\ t.successor \in Nat
               /\ t.statusAt \in t.born..day /\ t.worked \in 0..day
               /\ t.status = "superseded" => t.successor # 0
    BY <2>3, <2>4 DEF Theory, Timely
  <2> QED BY <2>1, <2>2, <2>4, Zenon DEF Thr!TheoriesTypeOK, TheoriesInv
<1>2. DevicesInv => Dev!DevicesTypeOK BY DEF DevicesInv, Dev!DevicesTypeOK, FromBefore
<1>3. HouseholdInv => HouseholdTypeOK
  BY <1>1, <1>2, OneHoldsSlot
     DEF HouseholdInv, HouseholdTypeOK, QuestionsInv, BriefsInv, ConsultInv
<1> QED BY <1>3, HouseholdInvariant, PTL

\* Replication never undoes (kernel/thread.rs merge_incoming, mesh/device.rs
\* absorb): a door that holds a theory closed keeps it closed whatever copies
\* come in, its facts of a device only get later, and a sighting gives way only to
\* as many that are no older as a record keeps.
THEOREM SyncAdds == MCSpec => SyncOnlyAdds
<1>1. HouseholdInv /\ [MCNext]_all =>
        [offer # Thr!NoOffer /\ offer' # offer => VerdictsStand]_(Thr!vars)
  BY HouseholdStep
<1>2. HouseholdInv /\ [MCNext]_all =>
        [\A d \in Dev!Both : card[d] # None =>
           /\ card'[d].updatedAt >= card[d].updatedAt
           /\ \A a \in Addrs :
                \/ card'[d].seen[a] >= card[d].seen[a]
                \/ Dev!Crowded(card'[d].seen, card[d].seen[a], Addrs \ {a})]_(Dev!vars)
  BY HouseholdStep DEF Grows, Kept
<1> QED BY <1>1, <1>2, HouseholdInvariant, PTL
        DEF MCSpec, SyncOnlyAdds, Thr!SyncRevivesNothing, VerdictsStand, Dev!RecordsGrow

\* What a person said is not asked of them again, and what is for her waits
\* for her (kernel/question.rs backfill_answered and next), unless a stop cut
\* the need from its thread.
THEOREM NeedsAreHers == MCSpec => HeldForHer
<1>1. HouseholdInv /\ [MCNext]_all => [screen' = "need" /\ screen # "need" => MayBeAsked]_(Que!vars)
  BY HouseholdStep
<1>2. HouseholdInv /\ [MCNext]_all =>
        /\ [screen' = "need" /\ screen # "need" =>
              ~round.knew \/ (halts > 0 /\ registry["need"].subject = None)]_(Que!vars)
        /\ [screen' = "need" /\ screen # "need" =>
             \/ Her \in here \/ hour - registry["need"].created > Hold
             \/ halts > 0 /\ registry["need"].subject = None]_(Que!vars)
  BY <1>1 DEF MayBeAsked, Need
<1> QED BY <1>2, HouseholdInvariant, PTL
        DEF MCSpec, HeldForHer, Que!SaidIsNotAsked, Que!HerQuestionWaits
=============================================================================
