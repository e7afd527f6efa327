------------------------------ MODULE Dialogue ------------------------------
(***************************************************************************)
(* Answering what a human just said (maybe_reply of cycle/lib.rs).  Two    *)
(* threads of the daemon do it over one append-only log: the tick, on its  *)
(* cadence, and the reply thread, when the wake file is touched.  Each     *)
(* reads the clock, loads the log, drafts, looks at the live log again and *)
(* records.  What the mind answers is one of three kinds of draft; the     *)
(* consult itself is Consult's.                                            *)
(***************************************************************************)
EXTENDS Integers, Sequences

CONSTANTS
    None,
    Words,        \* what is said, each thing once
    Corrupting,   \* the words the screen refuses
    Window,       \* REPLY_WINDOW_SECS
    Talk,         \* bound: the hour each thing may be said in
    MaxStops,     \* bound: stops of the daemon
    MaxHour       \* bound: the clock

DialogueAssumption ==
    /\ Corrupting \subseteq Words /\ None \notin Words
    /\ Window \in Nat /\ Talk \in [Words -> Nat] /\ MaxStops \in Nat
    /\ MaxHour \in Nat \ {0}

VARIABLES
    log,          \* observations.jsonl: utterances and replies, in append order
    wake,         \* the wake file
    mind,         \* what each answerer is doing
    pairs,        \* requests.jsonl and answers.jsonl: for each word, the replies
                  \* that a row is about
    stops, hour

vars == <<log, wake, mind, pairs, stops, hour>>

Answerers == {"tick", "thread"}
Kinds == {"admitted", "refused", "templated"}
Quiet == [at |-> "idle", now |-> 0, read |-> 0, word |-> None, kind |-> None, reply |-> 0]

Init ==
    /\ log = <<>> /\ wake = FALSE
    /\ mind = [a \in Answerers |-> Quiet]
    /\ pairs = [w \in Words |-> [requests |-> {}, answers |-> {}]]
    /\ stops = 0 /\ hour = 1

Utterances(view) == {k \in DOMAIN view : view[k].by = "human"}
Replied(view) == {k \in DOMAIN view : view[k].by \in Answerers}
SaidAt(w) == LET k == CHOOSE k \in Utterances(log) : log[k].word = w IN log[k].ts
Said(w) == \E k \in Utterances(log) : log[k].word = w

\* The freshest utterance; of those of one second, the last on the log.
Freshest(view) ==
    CHOOSE k \in Utterances(view) : \A j \in Utterances(view) \ {k} :
        view[k].ts > view[j].ts \/ (view[k].ts = view[j].ts /\ k > j)

\* A bug to be noticed: any reply counts, also one to something older.
AnsweredEver(view, ts) == Replied(view) # {}

\* Already replied to the latest thing said: a reply no older than it.
Answered(view, ts) == \E k \in Replied(view) : view[k].ts >= ts

(***************************************************************************)
(* People speak; the seam that hears them touches the wake file if it can. *)
(***************************************************************************)
Speak(w) ==
    /\ ~Said(w) /\ hour = Talk[w]
    /\ log' = Append(log, [by |-> "human", word |-> w, ts |-> hour, seen |-> 0])
    /\ wake' \in {TRUE, wake}
    /\ UNCHANGED <<mind, pairs, stops, hour>>

(***************************************************************************)
(* An answerer.  The clock is read before the log is.                      *)
(***************************************************************************)
Step(a, from, to) == mind[a].at = from /\ mind' = [mind EXCEPT ![a] = to]
Fall(a) == mind' = [mind EXCEPT ![a] = Quiet]

Begin(a) ==
    /\ a = "thread" => wake
    /\ wake' = IF a = "thread" THEN FALSE ELSE wake
    /\ Step(a, "idle", [Quiet EXCEPT !.at = "loading", !.now = hour])
    /\ UNCHANGED <<log, pairs, stops, hour>>

Owed(view, now) ==
    /\ Utterances(view) # {}
    /\ LET said == view[Freshest(view)]
       IN  now - said.ts <= Window /\ ~Answered(view, said.ts)

\* Nothing was said, the moment has passed, or it is answered already.
LoadNothing(a) ==
    /\ mind[a].at = "loading" /\ ~Owed(log, mind[a].now)
    /\ Fall(a)
    /\ UNCHANGED <<log, wake, pairs, stops, hour>>

\* The screen comes before any draft, and is not followed by a second look.
Load(a) ==
    /\ Owed(log, mind[a].now)
    /\ LET w == log[Freshest(log)].word
           heard == [mind[a] EXCEPT !.word = w]
       IN  Step(a, "loading",
                IF w \in Corrupting THEN [heard EXCEPT !.at = "recording", !.kind = "refused", !.read = Len(log)]
                ELSE [heard EXCEPT !.at = "drafting"])
    /\ UNCHANGED <<log, wake, pairs, stops, hour>>

\* One or two consults: admitted, or two drafts refused or no mind at all.
Draft(a) ==
    /\ \E kind \in {"admitted", "templated"} :
         Step(a, "drafting", [mind[a] EXCEPT !.at = "looking", !.kind = kind])
    /\ UNCHANGED <<log, wake, pairs, stops, hour>>

\* A bug to be noticed: no second look.
LookNever == <<>>

\* The second look is at the live log.
Look == log

LookAgain(a) ==
    /\ Step(a, "looking",
            IF Answered(Look, SaidAt(mind[a].word)) THEN Quiet
            ELSE [mind[a] EXCEPT !.at = "recording", !.read = Len(log)])
    /\ UNCHANGED <<log, wake, pairs, stops, hour>>

Record(a) ==
    /\ log' = Append(log, [by |-> a, word |-> mind[a].word, ts |-> mind[a].now,
                           seen |-> mind[a].read])
    /\ Step(a, "recording", IF mind[a].kind = "templated" THEN Quiet
                            ELSE [mind[a] EXCEPT !.at = "asking", !.reply = Len(log) + 1])
    /\ UNCHANGED <<wake, pairs, stops, hour>>

(***************************************************************************)
(* persist_exchange: the two rows of the pair, one after the other.  Their *)
(* numbers, counts of what is on file which two answerers may share, are   *)
(* left out.                                                               *)
(***************************************************************************)
FileRequest(a) ==
    /\ Step(a, "asking", [mind[a] EXCEPT !.at = "answering"])
    /\ pairs' = [pairs EXCEPT ![mind[a].word].requests = @ \cup {mind[a].reply}]
    /\ UNCHANGED <<log, wake, stops, hour>>

FileAnswer(a) ==
    /\ Step(a, "answering", Quiet)
    /\ pairs' = [pairs EXCEPT ![mind[a].word].answers = @ \cup {mind[a].reply}]
    /\ UNCHANGED <<log, wake, stops, hour>>

(***************************************************************************)
(* The daemon stops, and time passes.                                      *)
(***************************************************************************)
Stop ==
    /\ stops < MaxStops /\ stops' = stops + 1
    /\ mind' = [a \in Answerers |-> Quiet]
    /\ UNCHANGED <<log, wake, pairs, hour>>

Elapse ==
    /\ hour < MaxHour /\ hour' = hour + 1
    /\ UNCHANGED <<log, wake, mind, pairs, stops>>

Work(a) ==
    \/ Begin(a) \/ LoadNothing(a) \/ Load(a) \/ Draft(a) \/ LookAgain(a) \/ Record(a)
    \/ FileRequest(a) \/ FileAnswer(a)

Next ==
    \/ \E w \in Words : Speak(w)
    \/ \E a \in Answerers : Work(a)
    \/ Stop \/ Elapse

Spec == Init /\ [][Next]_vars

\* The daemon ticks for ever; the reply thread is woken or is not.
FairSpec == Spec /\ WF_vars(Work("tick"))
-----------------------------------------------------------------------------
\* Every record keeps its shape.
DialogueTypeOK ==
    /\ \A k \in DOMAIN log : log[k].by \in {"human"} \cup Answerers
                             /\ log[k].word \in Words /\ log[k].ts \in 1..hour
                             /\ log[k].seen < k
    /\ \A a \in Answerers : mind[a].kind \in Kinds \cup {None} /\ mind[a].read <= Len(log)
    /\ wake \in BOOLEAN /\ stops \in 0..MaxStops /\ hour \in 1..MaxHour

\* What the second look guarantees, "so the human hears one voice, not an
\* echo" (cycle/lib.rs:1057) in all other cases: a reply to something replied to
\* already was recorded by one who looked before the first reply was there,
\* or the first is dated before the words it answers.
EchoIsARace ==
    \A j, k \in Replied(log) :
        j < k /\ log[j].word = log[k].word
            => log[k].seen < j \/ log[j].ts < SaidAt(log[j].word)

\* "The pair is written together" (cycle/lib.rs:1105-1106), after the reply
\* it records: no answer without its request, no request without its reply.
PairsFollowReplies ==
    \A w \in Words :
        /\ pairs[w].answers \subseteq pairs[w].requests
        /\ pairs[w].requests \subseteq {k \in Replied(log) : log[k].word = w}

\* Whatever becomes of the wake file and of the daemon, the freshest thing
\* said is replied to, unless something newer is said or its moment passes.
Unheard ==
    /\ Utterances(log) # {}
    /\ LET last == log[Freshest(log)]
       IN  /\ hour - last.ts <= Window
           /\ \A k \in Replied(log) : log[k].ts < last.ts
TheyAreHeard == Unheard ~> ~Unheard
=============================================================================
