-------------------------- MODULE ChatSessionProofs --------------------------
(***************************************************************************)
(* Theorems about ChatSession, for any number of turns, runs, blocks of    *)
(* speech and faults.                                                      *)
(***************************************************************************)
EXTENDS ChatSession, FiniteSetTheorems, TLAPS

Opening(p) == at[p].pc \in {"starting", "create_failed", "failing"}
Answering(r) == stage[r] \in {"emit", "complete"}

(* Turns and runs are numbered in the order they come; what names a turn names *)
(* one that was opened.                                                        *)
InOrder ==
    /\ \E n \in 0 .. MaxTurns : {t \in Turns : kind[t] # "none"} = 1 .. n
    /\ \E n \in 0 .. MaxRuns : {r \in Runs : row[r] # "none"} = 1 .. n
    /\ cut \subseteq Turns
    /\ \A t \in Turns : kind[t] = "none" =>
         /\ t # turn /\ t \notin cut /\ runOf[t] = None /\ replies[t] = 0
         /\ \A p \in Handlers : at[p].turn # t

(* A turn is left for the speech that interrupts. *)
RoomToSpeak ==
    Pc("client", "vad") \/ Pc("client", "ready") \/ (at["client"].pc \in Interrupting /\ at["client"].speech)
        => NextTurn \in Turns

(* A run belongs to one turn, and begins once. *)
OneTurnEach ==
    /\ \A r \in Runs : row[r] = "none" => stage[r] = "none"
    /\ \A r \in Runs : row[r] # "none" => of[r] # None /\ runOf[of[r]] # None
    /\ \A t \in Turns : runOf[t] # None => row[runOf[t]] # "none" /\ of[runOf[t]] = t
    /\ \A p \in Handlers : Pc(p, "starting") =>
         at[p].run \in Runs /\ row[at[p].run] # "none" /\ stage[at[p].run] = "none"
    /\ Pc("client", "starting") /\ Pc("sub", "starting") => at["client"].run # at["sub"].run

(* Who may find a turn open. *)
OpenTurn ==
    /\ state = "ready" /\ turn # None => Pc("client", "create_failed")
    /\ committed => turn # None
    /\ runTask = None \/ runTask \in strays \/ turn # None
    /\ Pc("client", "ready") => turn = None
    /\ Pc("client", "flush") => at["client"].turn # None
    /\ at["client"].pc \in Interrupting \cup {"flush"} => turn \in {None, at["client"].turn}
    /\ at["client"].pc \in Interrupting => at["client"].turn \in cut \cup {None}

(* A run under way that has not lost its turn is the task of its turn. *)
OwnTurn ==
    /\ \A r \in Runs : Live(r) => r \in strays \/ (runTask = r /\ turn = of[r])
    /\ \A r \in Runs : Answering(r) => holds[r] \in Turns /\ (r \in strays \/ holds[r] = of[r])

(* A consumer speaks for a run that works or waits for it, or that an interrupt ended *)
(* without it.                                                                       *)
Speaking == {"working", "answered", "telling", "stopping", "giving_up", "drain"}

SpeaksForARun ==
    /\ \A r \in Runs : voice[r].stage \in {"idle", "asking", "rejected", "waiting"}
                         => r \in orphans \/ stage[r] \in Speaking
    /\ \A r \in Runs : r \in orphans => stage[r] = "done"
    /\ \A r \in Runs : stage[r] \in {"none", "created", "command"} => voice[r].stage = "none"
    /\ active # Silent => /\ active[2] = voice[active[1]].block
                          /\ voice[active[1]].stage \in {"asking", "waiting", "cut"}

(* What was answered is over, or about to be. *)
AnsweredOnce ==
    strays = {} => \A t \in Turns \ overlapped :
        /\ replies[t] <= 1
        /\ at["client"].pc \in {"cancel", "run_end"} /\ at["client"].turn = t => replies[t] = 0
        /\ replies[t] # 0 /\ turn = t =>
             (\E r \in Runs : Answering(r) /\ holds[r] = t) \/ (Pc("client", "publish") /\ at["client"].turn = t)

(* As long as nothing was cut short, a turn is spoken, transcribed and answered *)
(* before the next one is opened.                                               *)
NoRun == (\A r \in Runs : ~Live(r)) /\ (\A p \in Handlers : ~Opening(p))

Orderly ==
    cut = {} =>
        /\ finals # <<>> \/ buffer # {} \/ Pc("client", "flush") => turn # None /\ NoRun
        /\ finals # <<>> => Len(finals) = 1 /\ buffer = {} /\ committed /\ ~Pc("client", "flush")
        /\ \A r \in Runs : Live(r) => turn = of[r]
        /\ \A p \in Handlers : Pc(p, "starting") => turn = of[at[p].run]
        /\ \A p \in Handlers : Opening(p) => turn # None
        /\ \A r, q \in Runs : Live(r) /\ Live(q) => r = q
        /\ \A p \in Handlers : Opening(p) => \A r \in Runs : ~Live(r)
        /\ ~(Opening("client") /\ Opening("sub"))

(* Words of an open turn are its own unless an earlier one was cut short. *)
First(t, S) == \A u \in S : u >= t

OwnWords ==
    /\ turn # None /\ First(turn, cut) => (\A i \in DOMAIN finals : finals[i] = {turn}) /\ buffer \subseteq {turn}
    /\ at["sub"].pc \in {"control", "text", "empty"} => finals # <<>>
    /\ at["sub"].pc \in {"control", "text"} /\ at["sub"].turn # None /\ First(at["sub"].turn, cut)
         => Head(finals) = {at["sub"].turn}

(* A run that works knows itself by the run of its turn, unless that is another. *)
OwnId ==
    /\ \A r \in Runs : id[r] # None => row[r] # "none"
    /\ \A r \in Runs : stage[r] \in {"working", "answered"} =>
         /\ id[r] # None
         /\ of[r] # None /\ runOf[of[r]] = r => id[r] = r

(* What is still to come while the session is busy, or while its turn is recorded. *)
NobodyIsBusy == turn = None => state \in {"ready", "closed"} \/ EndInSight \/ accidents # {}

Recording ==
    IsAudio(turn) /\ ~committed => buffer # {} \/ at["client"].pc \in Interrupting \cup {"flush", "abort"}

TurnIsServed ==
    turn # None /\ (state # "buffering" \/ runOf[turn] # None \/ Pc("client", "commit")) =>
        \/ EndInSight \/ accidents # {}
        \/ finals # <<>> \/ at["sub"].pc \in {"control", "text", "empty"}
        \/ runOf[turn] # None /\ Answers(runOf[turn])

Served == NobodyIsBusy /\ Recording /\ TurnIsServed

IInv == /\ TypeOK /\ InOrder /\ RoomToSpeak /\ OneTurnEach /\ OpenTurn /\ OwnTurn /\ SpeaksForARun
        /\ AnsweredOnce /\ Orderly /\ OwnWords /\ TranscriptReachesItsTurn
        /\ OwnId /\ Served
-----------------------------------------------------------------------------
(* Sequences                                                                *)

\* What Append and Tail hold.
LEMMA AppendFacts ==
    ASSUME NEW S, NEW s \in Seq(S), NEW e \in S
    PROVE  /\ Append(s, e) \in Seq(S) /\ Append(s, e) # <<>>
           /\ Len(Append(s, e)) = Len(s) + 1
           /\ \A i \in DOMAIN Append(s, e) : (i \in DOMAIN s /\ Append(s, e)[i] = s[i]) \/ Append(s, e)[i] = e
  OBVIOUS

LEMMA TailFacts ==
    ASSUME NEW S, NEW s \in Seq(S), s # <<>>
    PROVE  /\ Tail(s) \in Seq(S) /\ Head(s) = s[1] /\ 1 \in DOMAIN s
           /\ Len(Tail(s)) = Len(s) - 1
           /\ \A i \in DOMAIN Tail(s) : i + 1 \in DOMAIN s /\ Tail(s)[i] = s[i + 1]
  OBVIOUS
-----------------------------------------------------------------------------
(* Numbers                                                                  *)

\* The next turn is a new one, and the one after all others.
LEMMA NextTurnIsNew ==
    ASSUME InOrder, ChatAssumption
    PROVE  /\ {t \in Turns : kind[t] # "none"} = 1 .. (NextTurn - 1)
           /\ NextTurn \in Nat /\ NextTurn - 1 \in 0 .. MaxTurns
           /\ NextTurn \in Turns => kind[NextTurn] = "none" /\ NextTurn # None
<1>1. PICK n \in 0 .. MaxTurns : {t \in Turns : kind[t] # "none"} = 1 .. n
  BY DEF InOrder
<1>2. MaxTurns \in Nat /\ n \in Nat
  BY DEF ChatAssumption
<1>3. Cardinality(1 .. n) = n
  BY <1>2, FS_Interval
<1>4. NextTurn = n + 1
  BY <1>1, <1>3 DEF NextTurn
<1>5. n + 1 \notin {t \in Turns : kind[t] # "none"}
  BY <1>1, <1>2
<1>6. QED
  BY <1>1, <1>2, <1>4, <1>5 DEF Turns, None

LEMMA NextRunIsNew ==
    ASSUME InOrder, ChatAssumption
    PROVE  /\ {r \in Runs : row[r] # "none"} = 1 .. (NextRun - 1)
           /\ NextRun \in Nat /\ NextRun - 1 \in 0 .. MaxRuns
           /\ NextRun \in Runs => row[NextRun] = "none" /\ NextRun # None
<1>1. PICK n \in 0 .. MaxRuns : {r \in Runs : row[r] # "none"} = 1 .. n
  BY DEF InOrder
<1>2. MaxRuns \in Nat /\ n \in Nat
  BY DEF ChatAssumption
<1>3. Cardinality(1 .. n) = n
  BY <1>2, FS_Interval
<1>4. NextRun = n + 1
  BY <1>1, <1>3 DEF NextRun
<1>5. n + 1 \notin {r \in Runs : row[r] # "none"}
  BY <1>1, <1>2
<1>6. QED
  BY <1>1, <1>2, <1>4, <1>5 DEF Runs, None

\* No turn, run or request is the missing one.
LEMMA Missing ==
    ASSUME ChatAssumption
    PROVE  /\ None \notin Turns /\ None \notin Runs
           /\ Silent \notin Requests
           /\ \A q \in Requests : q[1] \in Runs /\ q[2] \in 1 .. Blocks /\ q = <<q[1], q[2]>>
  BY DEF Turns, Runs, Requests, None, Silent
-----------------------------------------------------------------------------
(* What the handlers await                                                  *)

\* At rest a handler holds nothing, and it sets out with what it read.
LEMMA RestFacts ==
    /\ Rest \in Awaits
    /\ Rest.pc = "idle" /\ Rest.turn = None /\ Rest.run = None /\ Rest.speech = FALSE
  BY DEF Rest, Awaits, Stops, None

\* The record of a handler that sets out.
Sets(a, s, t) == a \in Awaits /\ a.pc = s /\ a.turn = t

\* Handler p goes to s with t, the other one awaits what it did.
Moves(p, s, t) == /\ at' \in [Handlers -> Awaits]
                  /\ at'[p].pc = s /\ at'[p].turn = t
                  /\ \A q \in Handlers : q # p => at'[q] = at[q]

LEMMA SetsOut ==
    ASSUME at \in [Handlers -> Awaits], NEW p \in Handlers, NEW a, NEW s, NEW t, Sets(a, s, t),
           at' = [at EXCEPT ![p] = a]
    PROVE  Moves(p, s, t) /\ at'[p] = a
  BY DEF Moves, Sets

LEMMA Returns ==
    ASSUME at \in [Handlers -> Awaits], NEW p \in Handlers, Return(p)
    PROVE  Moves(p, "idle", None)
<1>1. Sets(Rest, "idle", None)
  BY RestFacts DEF Sets
<1>2. QED
  BY <1>1, SetsOut DEF Return

LEMMA GoesOn ==
    ASSUME at \in [Handlers -> Awaits], NEW p \in Handlers, NEW s \in Stops, Goto(p, s)
    PROVE  Moves(p, s, at[p].turn) /\ at'[p].speech = at[p].speech
<1>1. at[p] \in Awaits
  OBVIOUS
<1>2. at' = [at EXCEPT ![p] = [at[p] EXCEPT !.pc = s]]
  BY DEF Goto
<1>3. Sets([at[p] EXCEPT !.pc = s], s, at[p].turn) /\ [at[p] EXCEPT !.pc = s].speech = at[p].speech
  BY <1>1 DEF Awaits, Sets
<1>4. QED
  BY <1>2, <1>3, SetsOut

\* What becomes of the client with each of its steps.
LEMMA ClientMoves ==
    ASSUME TypeOK, ChatAssumption
    PROVE  /\ ListenForBargeIn => Moves("client", "vad", None)
           /\ NoSpeech => Moves("client", "idle", None)
           /\ SpeechStarts \/ SpeechAfterInterrupt => (NextTurn \in Turns => Moves("client", "flush", NextTurn))
           /\ Flush => Moves("client", "idle", None) \/ Moves("client", "abort", at["client"].turn)
           /\ Abort => Moves("client", "idle", None)
           /\ Commit => Moves("client", "commit", turn) \/ Moves("client", "abort", at["client"].turn)
           /\ ChunkLost => Moves("client", "abort", at["client"].turn)
           /\ Interrupt \/ BargeIn => Moves("client", "cancel", turn)
           /\ Interrupt => ~at'["client"].speech
           /\ InterruptRun => Moves("client", "run_end", at["client"].turn)
           /\ InterruptPublish => Moves("client", "publish", at["client"].turn)
           /\ InterruptRun \/ InterruptPublish => at'["client"].speech = at["client"].speech
           /\ InterruptEnds => \/ Moves("client", "idle", None)
                               \/ Moves("client", "ready", at["client"].turn) /\ at["client"].speech
<1>1. /\ at \in [Handlers -> Awaits] /\ "client" \in Handlers
      /\ turn \in Turns \cup {None} /\ active \in Requests \cup {Silent} /\ runTask \in Runs \cup {None}
  BY DEF TypeOK, Handlers
<1>2. {"vad", "flush", "abort", "commit", "cancel", "run_end", "publish", "ready", "idle"} \subseteq Stops
  BY DEF Stops
<1>3. Unavailable => Moves("client", "abort", at["client"].turn)
  BY <1>1, <1>2, GoesOn DEF Unavailable
<1>4. Return("client") => Moves("client", "idle", None)
  BY <1>1, Returns
<1>5. ListenForBargeIn => Moves("client", "vad", None)
  <2>1. Sets([Rest EXCEPT !.pc = "vad"], "vad", None)
    BY <1>1, <1>2 DEF Rest, Awaits, None, Silent, Sets
  <2>2. QED
    BY <1>1, <2>1, SetsOut DEF ListenForBargeIn
<1>6. SpeechStarts \/ SpeechAfterInterrupt => (NextTurn \in Turns => Moves("client", "flush", NextTurn))
  <2>1. ASSUME NextTurn \in Turns PROVE Sets([Rest EXCEPT !.pc = "flush", !.turn = NextTurn], "flush", NextTurn)
    BY <1>1, <1>2, <2>1 DEF Rest, Awaits, None, Silent, Sets
  <2>2. QED
    BY <1>1, <2>1, SetsOut DEF SpeechStarts, SpeechAfterInterrupt, BeginAudioTurn
<1>7. Commit => Moves("client", "commit", turn) \/ Moves("client", "abort", at["client"].turn)
  <2>1. Sets([Rest EXCEPT !.pc = "commit", !.turn = turn], "commit", turn)
    BY <1>1, <1>2 DEF Rest, Awaits, None, Silent, Sets
  <2>2. QED
    BY <1>1, <1>3, <2>1, SetsOut DEF Commit
<1>8. \A b \in BOOLEAN : Execute(b) => Moves("client", "cancel", turn) /\ at'["client"].speech = b
  <2>1. ASSUME NEW b \in BOOLEAN
        PROVE  /\ Sets([Rest EXCEPT !.pc = "cancel", !.turn = turn, !.request = active, !.speech = b], "cancel", turn)
               /\ [Rest EXCEPT !.pc = "cancel", !.turn = turn, !.request = active, !.speech = b].speech = b
    BY <1>1, <1>2 DEF Rest, Awaits, None, Silent, Sets
  <2>2. QED
    BY <1>1, <2>1, SetsOut DEF Execute
<1>9. InterruptRun => Moves("client", "run_end", at["client"].turn) /\ at'["client"].speech = at["client"].speech
  <2> DEFINE a == [at["client"] EXCEPT !.pc = "run_end", !.run = runTask]
  <2>1. at["client"] \in Awaits
    BY <1>1
  <2>2. Sets(a, "run_end", at["client"].turn) /\ a.speech = at["client"].speech
    BY <1>1, <1>2, <2>1 DEF Awaits, Sets
  <2>3. InterruptRun => at' = [at EXCEPT !["client"] = a]
    BY <1>1 DEF InterruptRun
  <2> HIDE DEF a
  <2>4. QED
    BY <1>1, <2>2, <2>3, SetsOut
<1>10. /\ InterruptPublish => Moves("client", "publish", at["client"].turn) /\ at'["client"].speech = at["client"].speech
       /\ InterruptEnds => \/ Moves("client", "idle", None)
                           \/ Moves("client", "ready", at["client"].turn) /\ at["client"].speech
  BY <1>1, <1>2, <1>4, GoesOn DEF InterruptPublish, InterruptEnds
<1>11. /\ NoSpeech => Moves("client", "idle", None)
       /\ Flush => Moves("client", "idle", None) \/ Moves("client", "abort", at["client"].turn)
       /\ Abort => Moves("client", "idle", None)
       /\ ChunkLost => Moves("client", "abort", at["client"].turn)
  BY <1>3, <1>4 DEF NoSpeech, Flush, Abort, ChunkLost
<1>12. QED
  BY <1>5, <1>6, <1>7, <1>8, <1>9, <1>10, <1>11 DEF Interrupt, BargeIn

\* The end of the connection stops both handlers.
LEMMA ConnectionEnds ==
    ASSUME TypeOK, Committed
    PROVE  \/ turn # None /\ Moves("client", "idle", None)
           \/ /\ turn = None /\ at' \in [Handlers -> Awaits]
              /\ \A p \in Handlers : at'[p].pc = "closed" /\ at'[p].turn = None
<1>1. at \in [Handlers -> Awaits] /\ "client" \in Handlers
  BY DEF TypeOK, Handlers
<1>2. CASE turn = None
  <2>1. Sets([Rest EXCEPT !.pc = "closed"], "closed", None)
    BY DEF Rest, Awaits, Stops, None, Silent, Sets
  <2>2. at' = [p \in Handlers |-> [Rest EXCEPT !.pc = "closed"]]
    BY <1>2 DEF Committed
  <2>3. QED
    BY <1>2, <2>1, <2>2 DEF Sets
<1>3. CASE turn # None
  BY <1>1, <1>3, Returns DEF Committed
<1>4. QED
  BY <1>2, <1>3

\* ... and of the subscriber.
LEMMA SubMoves ==
    ASSUME TypeOK, ChatAssumption
    PROVE  /\ \A text \in {"text", "control", "noise"} : Final(text) =>
                \/ at' = at /\ FinalizeToReady(None) /\ finals' = Tail(finals)
                \/ /\ UNCHANGED <<fields, strays, finals>>
                   /\ \E s \in {"control", "text", "empty"} :
                        /\ Moves("sub", s, turn)
                        /\ at'["sub"].speech = (turn # None /\ committed)
           /\ FinalCloses => Moves("sub", "idle", None)
<1>1. /\ at \in [Handlers -> Awaits] /\ "sub" \in Handlers
      /\ turn \in Turns \cup {None} /\ committed \in BOOLEAN
  BY DEF TypeOK, Handlers
<1>2. ASSUME NEW text \in {"text", "control", "noise"}, Final(text)
      PROVE  \/ at' = at /\ FinalizeToReady(None) /\ finals' = Tail(finals)
             \/ /\ UNCHANGED <<fields, strays, finals>>
                /\ \E s \in {"control", "text", "empty"} :
                     /\ Moves("sub", s, turn)
                     /\ at'["sub"].speech = (turn # None /\ committed)
  <2> DEFINE mine == turn # None /\ committed
             goes == IF text = "control" /\ mine /\ turn \in barge THEN "control"
                     ELSE IF text # "noise" THEN "text" ELSE "empty"
             a    == [Rest EXCEPT !.pc = goes, !.turn = turn, !.speech = mine]
  <2>1. \/ at' = at /\ FinalizeToReady(None) /\ finals' = Tail(finals)
        \/ UNCHANGED <<fields, strays, finals>> /\ at' = [at EXCEPT !["sub"] = a]
    BY <1>2 DEF Final
  <2>2. goes \in {"control", "text", "empty"} /\ mine \in BOOLEAN /\ goes \in Stops
    BY <1>1 DEF Stops
  <2>3. Sets(a, goes, turn) /\ a.speech = mine
    <3> HIDE DEF goes, mine
    <3>1. QED
      BY <1>1, <2>2 DEF Rest, Awaits, None, Silent, Sets
  <2> HIDE DEF goes, a
  <2>4. at' = [at EXCEPT !["sub"] = a] => Moves("sub", goes, turn) /\ at'["sub"].speech = mine
    BY <1>1, <2>3, SetsOut
  <2>5. QED
    BY <2>1, <2>2, <2>4
<1>3. FinalCloses => Moves("sub", "idle", None)
  BY <1>1, Returns DEF FinalCloses
<1>4. QED
  BY <1>2, <1>3

LEMMA StartingMoves ==
    ASSUME TypeOK, NEW p \in Handlers
    PROVE  /\ StartTask(p) => Moves(p, "idle", None)
           /\ CreateFailed(p) => Moves(p, "failing", at[p].turn)
           /\ GiveUpTurn(p) => Moves(p, "idle", None)
<1>1. at \in [Handlers -> Awaits] /\ "failing" \in Stops
  BY DEF TypeOK, Stops
<1>2. QED
  BY <1>1, Returns, GoesOn DEF StartTask, CreateFailed, GiveUpTurn

\* A run is made for a turn, or its create failed.
Starts(p, t) ==
    \/ /\ NextRun \in Runs
       /\ row' = [row EXCEPT ![NextRun] = "reasoning"]
       /\ of' = [of EXCEPT ![NextRun] = t]
       /\ runOf' = [runOf EXCEPT ![t] = NextRun]
       /\ state' = "busy"
       /\ Moves(p, "starting", None) /\ at'[p].run = NextRun
       /\ UNCHANGED faults
    \/ /\ Moves(p, "create_failed", None)
       /\ UNCHANGED <<row, of, runOf, state>>
       /\ faults < MaxFaults /\ faults' = faults + 1

LEMMA StartRunFacts ==
    ASSUME TypeOK, NEW p \in Handlers, NEW t, StartRun(p, t)
    PROVE  Starts(p, t) /\ UNCHANGED <<stage, id, holds>> /\ cutting' = FALSE
<1>1. at \in [Handlers -> Awaits] /\ "starting" \in Stops /\ "create_failed" \in Stops
  BY DEF TypeOK, Stops
<1>2. CASE /\ NextRun \in Runs
           /\ row' = [row EXCEPT ![NextRun] = "reasoning"]
           /\ of' = [of EXCEPT ![NextRun] = t]
           /\ runOf' = [runOf EXCEPT ![t] = NextRun]
           /\ state' = "busy"
           /\ at' = [at EXCEPT ![p] = [Rest EXCEPT !.pc = "starting", !.run = NextRun]]
           /\ UNCHANGED faults
  <2> DEFINE a == [Rest EXCEPT !.pc = "starting", !.run = NextRun]
  <2>1. Sets(a, "starting", None) /\ a.run = NextRun
    BY <1>1, <1>2 DEF Rest, Awaits, None, Silent, Sets
  <2>2. at' = [at EXCEPT ![p] = a]
    BY <1>2
  <2> HIDE DEF a
  <2>3. Moves(p, "starting", None) /\ at'[p].run = NextRun
    BY <1>1, <2>1, <2>2, SetsOut
  <2>4. QED
    BY <1>2, <2>3 DEF Starts, StartRun
<1>3. CASE /\ faults < MaxFaults /\ faults' = faults + 1
           /\ at' = [at EXCEPT ![p] = [Rest EXCEPT !.pc = "create_failed"]]
           /\ UNCHANGED <<row, of, runOf, state>>
  <2>1. Sets([Rest EXCEPT !.pc = "create_failed"], "create_failed", None)
    BY <1>1 DEF Rest, Awaits, None, Silent, Sets
  <2>2. Moves(p, "create_failed", None)
    BY <1>1, <1>3, <2>1, SetsOut
  <2>3. QED
    BY <1>3, <2>2 DEF Starts, StartRun
<1>4. QED
  BY <1>2, <1>3 DEF StartRun
-----------------------------------------------------------------------------
(* The voices                                                               *)

\* A consumer that gets to another stage.
Turned(r, s) == /\ voice' \in [Runs -> Voices]
                /\ voice'[r].stage = s /\ voice'[r].block = voice[r].block
                /\ \A q \in Runs : q # r => voice'[q] = voice[q]

LEMMA VoiceFacts ==
    ASSUME voice \in [Runs -> Voices], NEW r \in Runs,
           NEW s \in {"none", "idle", "asking", "rejected", "waiting", "gone", "cut"},
           voice' = [voice EXCEPT ![r].stage = s]
    PROVE  Turned(r, s)
<1>1. voice[r] \in Voices
  OBVIOUS
<1>2. voice' = [voice EXCEPT ![r] = [voice[r] EXCEPT !.stage = s]]
  OBVIOUS
<1>3. [voice[r] EXCEPT !.stage = s] \in Voices
  BY <1>1 DEF Voices
<1>4. QED
  BY <1>1, <1>2, <1>3 DEF Turned, Voices

\* What is left of a consumer that is cancelled.
AfterCancel(s) == IF s = "asking" THEN "cut" ELSE IF s \in {"none", "cut"} THEN s ELSE "gone"

LEMMA CancelFacts ==
    ASSUME voice \in [Runs -> Voices], NEW r \in Runs, CancelConsumer(r)
    PROVE  Turned(r, AfterCancel(voice[r].stage))
<1> DEFINE s == AfterCancel(voice[r].stage)
<1>1. voice[r] \in Voices
  OBVIOUS
<1>2. s \in {"none", "idle", "asking", "rejected", "waiting", "gone", "cut"}
  BY <1>1 DEF Voices, AfterCancel
<1> DEFINE c == CASE voice[r].stage = "asking" -> "cut"
                  [] voice[r].stage \in {"none", "cut"} -> voice[r].stage
                  [] OTHER -> "gone"
<1>3. voice' = [voice EXCEPT ![r].stage = c]
  BY DEF CancelConsumer
<1>4. c = s
  BY DEF AfterCancel
<1> HIDE DEF s, c
<1>5. voice' = [voice EXCEPT ![r].stage = s]
  BY <1>3, <1>4
<1>6. Turned(r, s)
  BY <1>2, <1>5, VoiceFacts
<1>7. QED
  BY <1>6 DEF s

\* The one that asks, and the one it pushes aside.
LEMMA AskFacts ==
    ASSUME TypeOK, ChatAssumption, NEW r \in Runs, Ask(r)
    PROVE  /\ voice' \in [Runs -> Voices]
           /\ active' = <<r, voice'[r].block>> /\ active' \in Requests
           /\ voice[r].stage = "idle" /\ voice'[r].stage = "asking"
           /\ \A p \in Runs \ {r} : \/ voice'[p] = voice[p]
                                    \/ voice[p].stage = "waiting" /\ voice'[p].stage = "idle"
                                    \/ voice[p].stage = "asking" /\ voice'[p].stage = "rejected"
<1>1. /\ voice \in [Runs -> Voices] /\ Blocks \in Nat
      /\ \A p \in Runs : voice[p] \in Voices
  BY DEF TypeOK, ChatAssumption
<1> DEFINE next(p) ==
          CASE p = r -> [stage |-> "asking", block |-> voice[r].block + 1]
            [] p # r /\ active = <<p, voice[p].block>> /\ voice[p].stage = "waiting"
                 -> [voice[p] EXCEPT !.stage = "idle"]
            [] p # r /\ active = <<p, voice[p].block>> /\ voice[p].stage = "asking"
                 -> [voice[p] EXCEPT !.stage = "rejected"]
            [] OTHER -> voice[p]
<1>2. voice' = [p \in Runs |-> next(p)] /\ active' = <<r, voice[r].block + 1>>
      /\ voice[r].stage = "idle" /\ voice[r].block < Blocks
  BY DEF Ask
<1>3. next(r) = [stage |-> "asking", block |-> voice[r].block + 1]
  OBVIOUS
<1>4. voice[r].block + 1 \in 1 .. Blocks
  BY <1>1, <1>2 DEF Voices
<1>5. next(r) \in Voices /\ next(r).stage = "asking" /\ next(r).block = voice[r].block + 1
  BY <1>3, <1>4 DEF Voices
<1>6. ASSUME NEW p \in Runs \ {r}
      PROVE  /\ next(p) \in Voices
             /\ \/ next(p) = voice[p]
                \/ voice[p].stage = "waiting" /\ next(p).stage = "idle"
                \/ voice[p].stage = "asking" /\ next(p).stage = "rejected"
  <2>1. p # r /\ voice[p] \in Voices
    BY <1>1
  <2>2. CASE active = <<p, voice[p].block>> /\ voice[p].stage = "waiting"
    <3>1. next(p) = [voice[p] EXCEPT !.stage = "idle"]
      BY <2>1, <2>2
    <3>2. QED
      BY <2>1, <2>2, <3>1 DEF Voices
  <2>3. CASE active = <<p, voice[p].block>> /\ voice[p].stage = "asking"
    <3>1. next(p) = [voice[p] EXCEPT !.stage = "rejected"]
      BY <2>1, <2>3
    <3>2. QED
      BY <2>1, <2>3, <3>1 DEF Voices
  <2>4. CASE /\ ~(active = <<p, voice[p].block>> /\ voice[p].stage = "waiting")
             /\ ~(active = <<p, voice[p].block>> /\ voice[p].stage = "asking")
    <3>1. next(p) = voice[p]
      BY <2>1, <2>4
    <3>2. QED
      BY <2>1, <3>1
  <2>5. QED
    BY <2>2, <2>3, <2>4
<1> HIDE DEF next
<1>7. /\ voice'[r] = next(r)
      /\ \A p \in Runs \ {r} : voice'[p] = next(p)
      /\ voice' \in [Runs -> Voices]
  BY <1>2, <1>5, <1>6
<1>8. <<r, voice[r].block + 1>> \in Requests
  BY <1>4 DEF Requests
<1>9. QED
  BY <1>2, <1>5, <1>6, <1>7, <1>8

\* A request that ends is the one of its consumer.
LEMMA AwaitedFacts ==
    ASSUME NEW r \in Runs
    PROVE  /\ voice[r].stage = "waiting" => Awaited(r) = {<<r, voice[r].block>>}
           /\ voice[r].stage # "waiting" => Awaited(r) = {}
  BY DEF Awaited

SpeechOK == voice \in [Runs -> Voices] /\ active \in Requests \cup {Silent}

\* What a run's task may do while its consumer lives.
LEMMA SpeechStep ==
    ASSUME ChatAssumption, TypeOK, OneTurnEach, SpeaksForARun, [Next]_vars
    PROVE  SpeechOK' /\ SpeaksForARun'
<1>1. /\ voice \in [Runs -> Voices] /\ stage \in [Runs -> RunStages]
      /\ active \in Requests \cup {Silent} /\ id \in [Runs -> Runs \cup {None}]
      /\ \A r \in Runs : voice[r] \in Voices
  BY DEF TypeOK
<1>2. active # Silent => active[1] \in Runs /\ active[2] \in 1 .. Blocks /\ active = <<active[1], active[2]>>
  BY <1>1, Missing
<1>3. \A Q : Quieten(Q) => active' \in Requests \cup {Silent} /\ (active' # Silent => active' = active /\ active \notin Q)
  BY <1>1 DEF Quieten
<1>4. CASE UNCHANGED <<voice, active, stage, orphans>>
  BY <1>1, <1>4 DEF SpeechOK, SpeaksForARun, Speaking
<1>5. ASSUME NEW p \in Handlers, StartTask(p) PROVE SpeechOK' /\ SpeaksForARun'
  <2>1. at[p].run \in Runs /\ stage[at[p].run] = "none"
    BY <1>5 DEF StartTask, OneTurnEach
  <2>2. stage' = [stage EXCEPT ![at[p].run] = "created"] /\ UNCHANGED <<voice, active, orphans>>
    BY <1>5 DEF StartTask, tts
  <2>3. QED
    BY <1>1, <2>1, <2>2 DEF SpeechOK, SpeaksForARun, Speaking
<1>6. CASE InterruptRun
  <2>1. CASE UNCHANGED <<voice, stage, orphans>> /\ Quieten({at["client"].request})
    BY <1>1, <1>3, <2>1 DEF SpeechOK, SpeaksForARun
  <2>2. CASE /\ Live(runTask) /\ stage[runTask] = "working" /\ UNCHANGED <<voice, orphans>>
             /\ stage' = [stage EXCEPT ![runTask] = "stopping"] /\ Quieten({at["client"].request})
    BY <1>1, <1>3, <2>2 DEF SpeechOK, SpeaksForARun, Speaking, Live
  <2>3. CASE /\ Live(runTask) /\ stage[runTask] \in {"answered", "telling"} /\ orphans' = orphans \cup {runTask}
             /\ stage' = [stage EXCEPT ![runTask] = "done"] /\ Quieten({at["client"].request}) /\ UNCHANGED voice
    BY <1>1, <1>3, <2>3 DEF SpeechOK, SpeaksForARun, Speaking, Live
  <2>4. CASE /\ Live(runTask) /\ stage[runTask] \notin {"working", "answered", "telling"} /\ UNCHANGED orphans
             /\ CancelConsumer(runTask) /\ stage' = [stage EXCEPT ![runTask] = "done"]
             /\ Quieten({at["client"].request} \cup Awaited(runTask))
    <3>1. /\ CancelConsumer(runTask) /\ stage' = [stage EXCEPT ![runTask] = "done"] /\ UNCHANGED orphans
          /\ Quieten({at["client"].request} \cup Awaited(runTask)) /\ runTask \in Runs
      BY <2>4 DEF Live
    <3>2. Turned(runTask, AfterCancel(voice[runTask].stage))
      BY <1>1, <3>1, CancelFacts
    <3>3. \A r \in Runs : voice'[r].stage \in {"idle", "asking", "rejected", "waiting"} => r # runTask
      BY <3>1, <3>2 DEF Turned, AfterCancel
    <3>4. active' # Silent => active' = active /\ active \notin Awaited(runTask)
      BY <1>3, <3>1
    <3>5. active' # Silent /\ active[1] = runTask => voice[runTask].stage # "waiting"
      BY <1>2, <3>1, <3>4, AwaitedFacts DEF SpeaksForARun
    <3>6. SpeechOK'
      BY <1>3, <3>1, <3>2 DEF SpeechOK, Turned
    <3>7. active' # Silent => /\ active'[2] = voice'[active'[1]].block
                              /\ voice'[active'[1]].stage \in {"asking", "waiting", "cut"}
      BY <1>2, <3>1, <3>2, <3>4, <3>5 DEF SpeaksForARun, Turned, AfterCancel
    <3>8. \A r \in Runs : voice'[r].stage \in {"idle", "asking", "rejected", "waiting"}
                             => r \in orphans' \/ stage'[r] \in Speaking
      BY <1>1, <3>1, <3>2, <3>3 DEF SpeaksForARun, Turned
    <3>9. /\ \A r \in Runs : r \in orphans' => stage'[r] = "done"
          /\ \A r \in Runs : stage'[r] \in {"none", "created", "command"} => voice'[r].stage = "none"
      BY <1>1, <3>1, <3>2 DEF SpeaksForARun, Turned
    <3>10. QED
      BY <3>6, <3>7, <3>8, <3>9 DEF SpeaksForARun
  <2>5. QED
    BY <1>6, <2>1, <2>2, <2>3, <2>4 DEF InterruptRun
<1>7. ASSUME NEW r \in Runs, Begin(r) PROVE SpeechOK' /\ SpeaksForARun'
  <2>1. stage[r] = "created" /\ UNCHANGED <<active, orphans>> /\ voice[r].stage = "none" /\ r \notin orphans
    BY <1>7 DEF Begin, SpeaksForARun
  <2>2. CASE (\E s \in {"error", "command"} : stage' = [stage EXCEPT ![r] = s]) /\ UNCHANGED voice
    BY <1>1, <2>1, <2>2 DEF SpeechOK, SpeaksForARun
  <2>3. CASE /\ stage' = [stage EXCEPT ![r] = "working"]
             /\ voice' = [voice EXCEPT ![r].stage = IF IsAudio(of[r]) THEN "idle" ELSE "none"]
    <3>1. PICK s \in {"idle", "none"} : voice' = [voice EXCEPT ![r].stage = s]
      BY <2>3
    <3>2. Turned(r, s)
      BY <1>1, <3>1, VoiceFacts
    <3>3. QED
      BY <1>1, <1>2, <2>1, <2>3, <3>2 DEF SpeechOK, SpeaksForARun, Speaking, Turned
  <2>4. QED
    BY <1>7, <2>2, <2>3 DEF Begin
<1>8. ASSUME NEW r \in Runs,
             CommandEnds(r) \/ CrewAnswers(r) \/ CrewFails(r) \/ AnswerDropped(r) \/ AnswerTold(r) \/ AnswerKept(r)
      PROVE  SpeechOK' /\ SpeaksForARun'
  <2>1. UNCHANGED <<voice, active, orphans>> /\ stage[r] \notin {"none", "created", "done"}
        /\ \E s \in Speaking : stage' = [stage EXCEPT ![r] = s]
    BY <1>8 DEF CommandEnds, CrewAnswers, CrewFails, AnswerDropped, AnswerTold, AnswerKept, tts, history, Speaking
  <2>2. QED
    BY <1>1, <2>1 DEF SpeechOK, SpeaksForARun, Speaking
<1>9. ASSUME NEW r \in Runs, TornDown(r) \/ Complete(r) \/ RecordCompleted(r) \/ RecordFailed(r) \/ RunEnds(r)
      PROVE  SpeechOK' /\ SpeaksForARun'
  <2>1. stage[r] \notin {"none", "created", "done"} /\ UNCHANGED <<voice, active, orphans>>
    BY <1>9 DEF TornDown, Complete, RecordCompleted, RecordFailed, RunEnds, tts, history
  <2>2. r \notin orphans /\ voice[r].stage \notin {"idle", "asking", "rejected", "waiting"}
    BY <1>9, <2>1 DEF TornDown, Complete, RecordCompleted, RecordFailed, RunEnds, Quiet, SpeaksForARun, Speaking
  <2>3. \E s \in {"done", "error", "emit", "complete", "failing"} : stage' = [stage EXCEPT ![r] = s]
    BY <1>9 DEF TornDown, Complete, RecordCompleted, RecordFailed, RunEnds
  <2>4. QED
    BY <1>1, <2>1, <2>2, <2>3 DEF SpeechOK, SpeaksForARun, Speaking
<1>10. ASSUME NEW r \in Runs, SpeechEnds(r) PROVE SpeechOK' /\ SpeaksForARun'
  <2>1. /\ voice[r].stage = "waiting" /\ voice' = [voice EXCEPT ![r].stage = "idle"]
        /\ Quieten(Awaited(r)) /\ UNCHANGED <<stage, orphans>>
    BY <1>10 DEF SpeechEnds, runs, history
  <2>2. Turned(r, "idle")
    BY <1>1, <2>1, VoiceFacts
  <2>3. active' # Silent => active' = active /\ active[1] # r
    BY <1>2, <1>3, <2>1, AwaitedFacts DEF SpeaksForARun
  <2>4. QED
    BY <1>1, <1>2, <1>3, <2>1, <2>2, <2>3 DEF SpeechOK, SpeaksForARun, Turned
<1>11. ASSUME NEW r \in Runs, Ask(r) PROVE SpeechOK' /\ SpeaksForARun'
  <2>1. UNCHANGED <<stage, orphans>>
    BY <1>11 DEF Ask, runs, history
  <2>2. active'[1] = r /\ active'[2] = voice'[r].block /\ voice'[r].stage = "asking"
    BY <1>11, AskFacts
  <2>3. SpeechOK'
    BY <1>11, AskFacts DEF SpeechOK
  <2>4. \A p \in Runs : \/ p = r /\ voice[p].stage = "idle"
                        \/ voice'[p] = voice[p]
                        \/ voice[p].stage \in {"waiting", "asking"}
    BY <1>11, AskFacts
  <2>5. QED
    BY <1>11, <2>1, <2>2, <2>3, <2>4 DEF SpeaksForARun
<1>12. ASSUME NEW r \in Runs, Asked(r) PROVE SpeechOK' /\ SpeaksForARun'
  <2>1. PICK s \in {"waiting", "idle"} : voice' = [voice EXCEPT ![r].stage = s] /\ (s = "idle" => voice[r].stage = "rejected")
    BY <1>12 DEF Asked
  <2>2. Turned(r, s)
    BY <1>1, <2>1, VoiceFacts
  <2>3. UNCHANGED <<stage, active, orphans>> /\ voice[r].stage \in {"asking", "rejected"}
    BY <1>12 DEF Asked, runs, history
  <2>4. QED
    BY <1>1, <1>2, <2>1, <2>2, <2>3 DEF SpeechOK, SpeaksForARun, Turned
<1>13. ASSUME NEW r \in Runs, BlockFails(r) PROVE SpeechOK' /\ SpeaksForARun'
  <2>1. /\ voice[r].stage \in {"asking", "waiting"} /\ voice' = [voice EXCEPT ![r].stage = "idle"]
        /\ Quieten({<<r, voice[r].block>>}) /\ UNCHANGED <<stage, orphans>>
    BY <1>13 DEF BlockFails, runs, history
  <2>2. Turned(r, "idle")
    BY <1>1, <2>1, VoiceFacts
  <2>3. active' # Silent => active' = active /\ active[1] # r
    BY <1>2, <1>3, <2>1 DEF SpeaksForARun
  <2>4. QED
    BY <1>1, <1>2, <1>3, <2>1, <2>2, <2>3 DEF SpeechOK, SpeaksForARun, Turned
<1>14. ASSUME NEW r \in Runs, VoiceEnds(r) PROVE SpeechOK' /\ SpeaksForARun'
  <2>1. voice[r].stage = "idle" /\ voice' = [voice EXCEPT ![r].stage = "gone"] /\ UNCHANGED <<stage, active, orphans>>
    BY <1>14 DEF VoiceEnds, runs, history
  <2>2. Turned(r, "gone")
    BY <1>1, <2>1, VoiceFacts
  <2>3. stage[r] \notin {"none", "created", "command"}
    BY <2>1 DEF SpeaksForARun
  <2>4. QED
    BY <1>1, <1>2, <2>1, <2>2, <2>3 DEF SpeechOK, SpeaksForARun, Turned
<1>15. ASSUME NEW r \in Runs, VoiceTimesOut(r) PROVE SpeechOK' /\ SpeaksForARun'
  <2>1. /\ stage[r] \in {"stopping", "giving_up", "drain"} /\ CancelConsumer(r)
        /\ Quieten(Awaited(r)) /\ stage' = [stage EXCEPT ![r] = "done"] /\ UNCHANGED orphans
    BY <1>15 DEF VoiceTimesOut
  <2>2. Turned(r, AfterCancel(voice[r].stage))
    BY <1>1, <2>1, CancelFacts
  <2>3. active' # Silent => active' = active /\ (active[1] = r => voice[r].stage # "waiting")
    BY <1>2, <1>3, <2>1, AwaitedFacts DEF SpeaksForARun
  <2>4. /\ \A q \in Runs : q # r => voice'[q] = voice[q] /\ stage'[q] = stage[q]
        /\ voice'[r].stage \in {"none", "gone", "cut"} /\ stage'[r] = "done"
    BY <1>1, <2>1, <2>2 DEF Turned, AfterCancel
  <2>5. SpeechOK'
    BY <1>3, <2>1, <2>2 DEF SpeechOK, Turned
  <2>6. active' # Silent => /\ active'[2] = voice'[active'[1]].block
                            /\ voice'[active'[1]].stage \in {"asking", "waiting", "cut"}
    BY <1>2, <2>2, <2>3 DEF SpeaksForARun, Turned, AfterCancel
  <2>7. QED
    BY <2>1, <2>4, <2>5, <2>6 DEF SpeaksForARun
<1>16. ASSUME Client, ~InterruptRun PROVE UNCHANGED <<voice, active, stage, orphans>>
  BY <1>16 DEF Client, UserMessage, StartRun, ListenForBargeIn, NoSpeech, SpeechStarts, SpeechAfterInterrupt, Flush,
     Abort, Commit, Committed, ChunkLost, Interrupt, BargeIn, Execute, InterruptPublish, InterruptEnds, runs, tts, history
<1>17. ASSUME Hears PROVE UNCHANGED <<voice, active, stage, orphans>>
  BY <1>17 DEF Hears, Final, FinalCloses, FinalStarts, StartRun, runs, tts, history
<1>18. ASSUME NEW p \in Handlers, CreateFailed(p) \/ GiveUpTurn(p) PROVE UNCHANGED <<voice, active, stage, orphans>>
  BY <1>18 DEF CreateFailed, GiveUpTurn, runs, tts, history
<1>19. ASSUME NEW r \in Runs, CrewEvent(r) PROVE UNCHANGED <<voice, active, stage, orphans>>
  BY <1>19 DEF CrewEvent, runs, tts, history
<1>20. CASE UNCHANGED vars
  BY <1>4, <1>20 DEF vars, runs, tts, history
<1>21. QED
  BY <1>4, <1>5, <1>6, <1>7, <1>8, <1>9, <1>10, <1>11, <1>12, <1>13, <1>14, <1>15, <1>16, <1>17, <1>18, <1>19, <1>20
     DEF Next, Subscriber, Starting, Run, Voice
-----------------------------------------------------------------------------
(* Turns and runs in the order they come                                    *)

\* What a handler holds was opened.
Names(p) == /\ at'[p].turn \in {None, turn, at[p].turn}
            /\ at'[p].pc = "starting" => at'[p] = at[p]
            /\ Opening(p)' => Opening(p)

LEMMA HandlersName ==
    ASSUME ChatAssumption, TypeOK, [Next]_vars,
           ~UserMessage, ~SpeechStarts, ~SpeechAfterInterrupt, ~FinalStarts
    PROVE  at' \in [Handlers -> Awaits] /\ \A p \in Handlers : Names(p)
<1>1. Handlers = {"client", "sub"} /\ at \in [Handlers -> Awaits]
  BY DEF Handlers, TypeOK
<1>2. ASSUME UNCHANGED at PROVE at' \in [Handlers -> Awaits] /\ \A p \in Handlers : Names(p)
  BY <1>1, <1>2 DEF Names, Opening
<1>3. ASSUME NEW p \in Handlers, NEW s, NEW t \in {None, turn, at[p].turn}, Moves(p, s, t),
             s \notin {"starting", "create_failed"}, s = "failing" => Opening(p)
      PROVE  at' \in [Handlers -> Awaits] /\ \A q \in Handlers : Names(q)
  BY <1>3 DEF Names, Moves, Opening
<1>4. CASE \/ ListenForBargeIn \/ NoSpeech \/ Flush \/ Abort \/ Commit \/ ChunkLost
           \/ Interrupt \/ BargeIn \/ InterruptRun \/ InterruptPublish \/ InterruptEnds
  BY <1>1, <1>3, <1>4, ClientMoves
<1>5. CASE Committed
  <2>1. \/ Moves("client", "idle", None)
        \/ /\ at' \in [Handlers -> Awaits]
           /\ \A p \in Handlers : at'[p].pc = "closed" /\ at'[p].turn = None
    BY <1>5, ConnectionEnds
  <2>2. QED
    BY <1>1, <1>3, <2>1 DEF Names, Opening
<1>6. CASE (\E text \in {"text", "control", "noise"} : Final(text)) \/ FinalCloses
  BY <1>1, <1>2, <1>3, <1>6, SubMoves
<1>7. ASSUME NEW p \in Handlers, StartTask(p) \/ CreateFailed(p) \/ GiveUpTurn(p)
      PROVE  at' \in [Handlers -> Awaits] /\ \A q \in Handlers : Names(q)
  BY <1>3, <1>7, StartingMoves DEF CreateFailed, Opening, Pc
<1>8. ASSUME NEW r \in Runs, SpeechEnds(r) \/ Run(r) \/ Voice(r) PROVE UNCHANGED at
  BY <1>8 DEF SpeechEnds, Run, Voice, Begin, CrewEvent, CommandEnds, CrewAnswers, AnswerDropped, AnswerTold,
     AnswerKept, CrewFails, TornDown, Complete,
     RecordCompleted, RecordFailed, RunEnds, Ask, Asked, BlockFails, VoiceEnds, VoiceTimesOut
<1>9. CASE UNCHANGED vars
  BY <1>2, <1>9 DEF vars
<1>10. QED
  BY <1>2, <1>4, <1>5, <1>6, <1>7, <1>8, <1>9 DEF Next, Client, Subscriber, Hears, Starting

\* A turn that is named, cut, answered or run was opened.
LEMMA OpenedFacts ==
    ASSUME TypeOK, InOrder
    PROVE  /\ turn # None => kind[turn] # "none"
           /\ \A p \in Handlers : at[p].turn # None => kind[at[p].turn] # "none"
           /\ \A p \in Handlers : at[p].turn \in Turns \cup {None}
<1>1. \A p \in Handlers : at[p] \in Awaits
  BY DEF TypeOK
<1>2. \A p \in Handlers : at[p].turn \in Turns \cup {None}
  BY <1>1 DEF Awaits
<1>3. QED
  BY <1>2 DEF TypeOK, InOrder

\* What the steps but those that open a turn do to the things InOrder is about.
LEMMA NothingOpens ==
    ASSUME ChatAssumption, TypeOK, InOrder, [Next]_vars,
           ~UserMessage, ~SpeechStarts, ~SpeechAfterInterrupt
    PROVE  /\ UNCHANGED kind /\ turn' \in {turn, None}
           /\ cut' \subseteq cut \cup ({turn} \ {None})
           /\ runOf' = runOf \/ (FinalStarts /\ turn # None /\ runOf' = [runOf EXCEPT ![turn] = NextRun])
           /\ \/ replies' = replies
              \/ \E t \in {turn, at["client"].turn} \ {None} : replies' = [replies EXCEPT ![t] = @ + 1]
<1>1. CASE UNCHANGED vars
  BY <1>1 DEF vars, fields, turns, runs, history
<1>2. CASE Client
  <2>1. Commit => UNCHANGED <<kind, turn, cut, runOf, replies>>
    BY DEF Commit, AsrCommit, Unavailable, turns, runs, history
  <2>2. InterruptPublish => /\ UNCHANGED <<kind, turn, cut, runOf>>
                            /\ \/ replies' = replies
                               \/ \E t \in {at["client"].turn} \ {None} : replies' = [replies EXCEPT ![t] = @ + 1]
    BY DEF InterruptPublish, turns, runs, history
  <2>3. InterruptRun => UNCHANGED <<kind, turn, cut, runOf, replies>>
    BY DEF InterruptRun, AsrCommit, turns, runs, history, fields
  <2>4. QED
    BY <1>2, <2>1, <2>2, <2>3 DEF Client, ListenForBargeIn, NoSpeech, Flush, Abort, Committed, ChunkLost, Interrupt, BargeIn,
       Execute, InterruptEnds, Unavailable, FinalizeToReady, Finalize, fields, turns, runs, history
<1>3. CASE Subscriber
  <2>1. FinalStarts => /\ UNCHANGED <<kind, turn, cut, replies>>
                       /\ runOf' = runOf \/ (turn # None /\ runOf' = [runOf EXCEPT ![turn] = NextRun])
    BY DEF FinalStarts, StartRun, runs, history
  <2>2. QED
    BY <1>3, <2>1 DEF Subscriber, Hears, Final, FinalCloses, SpeechEnds, FinalizeToReady, Finalize, fields, turns, runs, history
<1>4. CASE \E p \in Handlers : Starting(p)
  BY <1>4 DEF Starting, StartTask, CreateFailed, GiveUpTurn, FinalizeToReady, Finalize, fields, turns, runs, history
<1>5. CASE \E r \in Runs : Run(r) \/ Voice(r)
  <2>1. PICK r \in Runs : Run(r) \/ Voice(r)
    BY <1>5
  <2>2. Complete(r) => /\ UNCHANGED <<kind, turn, cut, runOf>>
                       /\ replies' = replies \/ (turn # None /\ replies' = [replies EXCEPT ![turn] = @ + 1])
    BY DEF Complete, fields, turns
  <2>3. QED
    BY <2>1, <2>2 DEF Run, Voice, Begin, CrewEvent, CommandEnds, CrewAnswers, AnswerDropped, AnswerTold,
       AnswerKept, CrewFails, TornDown,
       RecordCompleted, RecordFailed, RunEnds, Ask, Asked, BlockFails, VoiceEnds, VoiceTimesOut,
       FinalizeToReady, Finalize, fields, turns, runs, history
<1>6. QED
  BY <1>1, <1>2, <1>3, <1>4, <1>5 DEF Next

\* What the steps that open a turn do.
LEMMA TurnOpens ==
    ASSUME ChatAssumption, TypeOK, InOrder, RoomToSpeak, UserMessage \/ SpeechStarts \/ SpeechAfterInterrupt
    PROVE  /\ NextTurn \in Turns /\ kind[NextTurn] = "none" /\ NextTurn # None
           /\ \E k \in {"text", "audio"} : kind' = [kind EXCEPT ![NextTurn] = k]
           /\ barge' \in SUBSET Turns
           /\ turn' = NextTurn
           /\ UNCHANGED <<runTask, misheard, stage, id, holds, asr, tts, replies, history>>
           /\ at' \in [Handlers -> Awaits] /\ at'["sub"] = at["sub"] /\ at["client"].pc \in {"idle", "ready"}
           /\ \/ UserMessage /\ Starts("client", NextTurn) /\ UNCHANGED committed /\ state = "ready" /\ Pc("client", "idle")
              \/ /\ Moves("client", "flush", NextTurn) /\ state' = "buffering" /\ committed' = FALSE
                 /\ UNCHANGED <<row, of, runOf, faults>>
                 /\ Pc("client", "ready") \/ (Pc("client", "idle") /\ state = "ready")
<1>1. NextTurn \in Turns
  BY DEF UserMessage, SpeechStarts, SpeechAfterInterrupt, RoomToSpeak
<1>2. "client" \in Handlers /\ "sub" \in Handlers
  BY DEF Handlers
<1>3. CASE UserMessage
  <2>1. Starts("client", NextTurn) /\ UNCHANGED <<stage, id, holds>>
    BY <1>2, <1>3, StartRunFacts DEF UserMessage
  <2>2. /\ kind' = [kind EXCEPT ![NextTurn] = "text"] /\ barge' = barge /\ turn' = NextTurn
        /\ UNCHANGED <<runTask, committed, misheard, asr, tts, replies, history>>
        /\ state = "ready" /\ Pc("client", "idle")
    BY <1>3 DEF UserMessage, NewTurn
  <2>3. at' \in [Handlers -> Awaits] /\ at'["sub"] = at["sub"]
    BY <1>2, <2>1 DEF Starts, Moves
  <2>4. barge' \in SUBSET Turns
    BY <2>2 DEF TypeOK
  <2>5. QED
    BY <1>1, <1>3, <2>1, <2>2, <2>3, <2>4, NextTurnIsNew DEF Pc
<1>4. CASE SpeechStarts \/ SpeechAfterInterrupt
  <2>1. Moves("client", "flush", NextTurn)
    BY <1>1, <1>4, ClientMoves
  <2>2. /\ kind' = [kind EXCEPT ![NextTurn] = "audio"] /\ barge' \in {barge, barge \cup {NextTurn}} /\ turn' = NextTurn
        /\ UNCHANGED <<runTask, misheard, stage, id, holds, asr, tts, replies, history>>
        /\ UNCHANGED <<row, of, runOf, faults>>
        /\ state' = "buffering" /\ committed' = FALSE
        /\ Pc("client", "ready") \/ (Pc("client", "idle") /\ state = "ready")
    BY <1>4 DEF SpeechStarts, SpeechAfterInterrupt, BeginAudioTurn, NewTurn, runs
  <2>3. at' \in [Handlers -> Awaits] /\ at'["sub"] = at["sub"]
    BY <1>2, <2>1 DEF Moves
  <2>4. barge' \in SUBSET Turns
    BY <1>1, <2>2 DEF TypeOK
  <2>5. QED
    BY <1>1, <2>1, <2>2, <2>3, <2>4, NextTurnIsNew DEF Pc
<1>5. QED
  BY <1>3, <1>4

\* A transcript starts a run of the open turn.
LEMMA TranscriptStarts ==
    ASSUME ChatAssumption, TypeOK, FinalStarts
    PROVE  /\ at' \in [Handlers -> Awaits] /\ at'["client"] = at["client"] /\ Pc("sub", "text")
           /\ \/ turn = None /\ Moves("sub", "idle", None) /\ UNCHANGED <<state, row, of, runOf, faults>>
              \/ turn \in Turns /\ Starts("sub", turn)
           /\ UNCHANGED <<stage, id, holds, turn, runTask, committed, kind, barge, buffer, tts, replies, history>>
           /\ finals' = Tail(finals) /\ at["sub"].speech /\ Persist(at["sub"].turn)
<1>1. "client" \in Handlers /\ "sub" \in Handlers /\ turn \in Turns \cup {None}
      /\ at \in [Handlers -> Awaits]
  BY DEF Handlers, TypeOK
<1>2. CASE turn = None
  <2>1. Moves("sub", "idle", None)
    BY <1>1, <1>2, Returns DEF FinalStarts
  <2>2. at' \in [Handlers -> Awaits] /\ at'["client"] = at["client"]
    BY <1>1, <2>1 DEF Moves
  <2>3. QED
    BY <1>2, <2>1, <2>2 DEF FinalStarts, runs
<1>3. CASE turn # None
  <2>1. Starts("sub", turn) /\ UNCHANGED <<stage, id, holds>>
    BY <1>1, <1>3, StartRunFacts DEF FinalStarts
  <2>2. at' \in [Handlers -> Awaits] /\ at'["client"] = at["client"]
    BY <1>1, <2>1 DEF Starts, Moves
  <2>3. QED
    BY <1>1, <1>3, <2>1, <2>2 DEF FinalStarts
<1>4. QED
  BY <1>2, <1>3

\* A row that is written was there; the other steps make none.
Rewritten == \E r \in Runs, s \in Rows \ {"none"} : row[r] # "none" /\ row' = [row EXCEPT ![r] = s]

LEMMA RowsStay ==
    ASSUME ChatAssumption, TypeOK, InOrder, OneTurnEach, OwnTurn, [Next]_vars, ~UserMessage, ~FinalStarts
    PROVE  /\ UNCHANGED <<of, runOf>>
           /\ row' = row \/ Rewritten
<1>1. {"completed", "failed", "interrupted"} \subseteq Rows \ {"none"}
  BY DEF Rows
<1>2. ASSUME NEW t \in Turns, runOf[t] # None, NEW s \in {"completed", "failed", "interrupted"},
             row' = [row EXCEPT ![runOf[t]] = s]
      PROVE  Rewritten
  <2>1. runOf[t] \in Runs /\ row[runOf[t]] # "none"
    BY <1>2 DEF TypeOK, OneTurnEach
  <2>2. QED
    BY <1>1, <1>2, <2>1 DEF Rewritten
<1>3. turn \in Turns \cup {None} /\ at["client"].turn \in Turns \cup {None}
  BY OpenedFacts DEF TypeOK, Handlers
<1>4. CASE Client
  <2>1. InterruptEnds => row' = row \/ Rewritten
    BY <1>2, <1>3 DEF InterruptEnds
  <2>2. QED
    BY <1>4, <2>1 DEF Client, ListenForBargeIn, NoSpeech, SpeechStarts, SpeechAfterInterrupt, Flush, Abort, Commit,
       Committed, ChunkLost, Interrupt, BargeIn, Execute, InterruptRun, InterruptPublish, InterruptEnds, runs
<1>5. CASE Subscriber
  BY <1>5 DEF Subscriber, Hears, Final, FinalCloses, SpeechEnds, runs
<1>6. RowFailed => row' = row \/ Rewritten
  BY <1>2, <1>3 DEF RowFailed
<1>7. CASE \E p \in Handlers : Starting(p)
  BY <1>6, <1>7 DEF Starting, StartTask, CreateFailed, GiveUpTurn, runs
<1>8. ASSUME NEW r \in Runs, AnswerKept(r) PROVE row' = row \/ Rewritten
  <2>1. stage[r] # "none"
    BY <1>8 DEF AnswerKept
  <2>2. of[r] \in Turns /\ runOf[of[r]] # None
    BY <2>1 DEF OneTurnEach, TypeOK
  <2>3. QED
    BY <1>2, <1>8, <2>2 DEF AnswerKept
<1>9. ASSUME NEW r \in Runs, RecordCompleted(r) PROVE row' = row \/ Rewritten
  <2>1. holds[r] \in Turns
    BY <1>9 DEF RecordCompleted, OwnTurn, Answering
  <2>2. QED
    BY <1>2, <1>9, <2>1 DEF RecordCompleted
<1>10. CASE \E r \in Runs : Run(r) \/ Voice(r)
  BY <1>6, <1>8, <1>9, <1>10 DEF Run, Voice, Begin, CrewEvent, CommandEnds, CrewAnswers, AnswerDropped,
     AnswerTold, AnswerKept, CrewFails, TornDown, Complete, RecordCompleted,
     RecordFailed, RunEnds, Ask, Asked, BlockFails, VoiceEnds, VoiceTimesOut, runs
<1>11. CASE UNCHANGED vars
  BY <1>11 DEF vars, runs
<1>12. QED
  BY <1>4, <1>5, <1>7, <1>10, <1>11 DEF Next

\* The next stage of a run's task.
LEMMA StagesMove ==
    ASSUME ChatAssumption, TypeOK, OneTurnEach, [Next]_vars
    PROVE  \/ UNCHANGED stage
           \/ \E p \in Handlers : StartTask(p) /\ stage' = [stage EXCEPT ![at[p].run] = "created"]
           \/ \E r \in Runs, s \in RunStages \ {"none"} : Live(r) /\ stage' = [stage EXCEPT ![r] = s]
<1>1. RunStages \ {"none"} = {"created", "command", "working", "answered", "telling", "stopping", "giving_up", "drain",
                            "emit", "complete", "error", "failing", "done"}
  BY DEF RunStages
<1>2. CASE InterruptRun
  BY <1>1, <1>2 DEF InterruptRun, Live
<1>3. ASSUME Client, ~InterruptRun PROVE UNCHANGED stage
  BY <1>3 DEF Client, UserMessage, StartRun, ListenForBargeIn, NoSpeech, SpeechStarts, SpeechAfterInterrupt, Flush,
     Abort, Commit, Committed, ChunkLost, Interrupt, BargeIn, Execute, InterruptPublish, InterruptEnds, runs
<1>4. CASE Subscriber
  BY <1>4 DEF Subscriber, Hears, Final, FinalCloses, FinalStarts, StartRun, SpeechEnds, runs
<1>5. CASE \E p \in Handlers : Starting(p)
  BY <1>5 DEF Starting, StartTask, CreateFailed, GiveUpTurn, runs
<1>6. CASE \E r \in Runs : Run(r) \/ Voice(r)
  <2>1. PICK r \in Runs : Run(r) \/ Voice(r)
    BY <1>6
  <2>2. TornDown(r) => Live(r) /\ \E s \in {"done", "error"} : stage' = [stage EXCEPT ![r] = s]
    BY DEF TornDown, Live
  <2>3. Begin(r) \/ CommandEnds(r) \/ CrewAnswers(r) \/ AnswerDropped(r) \/ AnswerTold(r) \/ AnswerKept(r) \/ CrewFails(r)
           => Live(r) /\ \E s \in RunStages \ {"none"} : stage' = [stage EXCEPT ![r] = s]
    BY <1>1 DEF Live, Begin, CommandEnds, CrewAnswers, AnswerDropped, AnswerTold, AnswerKept, CrewFails
  <2>4. Complete(r) \/ RecordCompleted(r) \/ RecordFailed(r) \/ RunEnds(r) \/ VoiceTimesOut(r)
           => Live(r) /\ \E s \in RunStages \ {"none"} : stage' = [stage EXCEPT ![r] = s]
    BY <1>1 DEF Live, Complete, RecordCompleted, RecordFailed, RunEnds, VoiceTimesOut
  <2>5. CrewEvent(r) \/ Ask(r) \/ Asked(r) \/ BlockFails(r) \/ VoiceEnds(r) => UNCHANGED stage
    BY DEF CrewEvent, Ask, Asked, BlockFails, VoiceEnds, runs
  <2>6. QED
    BY <1>1, <2>1, <2>2, <2>3, <2>4, <2>5 DEF Run, Voice
<1>7. CASE UNCHANGED vars
  BY <1>7 DEF vars, runs
<1>8. QED
  BY <1>2, <1>3, <1>4, <1>5, <1>6, <1>7 DEF Next

\* Nothing is named before it is opened.
LEMMA InOrderStep ==
    ASSUME ChatAssumption, TypeOK, InOrder, RoomToSpeak, OneTurnEach, OwnTurn, [Next]_vars
    PROVE  InOrder'
<1> DEFINE Opens == UserMessage \/ SpeechStarts \/ SpeechAfterInterrupt
<1>1. Handlers = {"client", "sub"} /\ MaxTurns \in Nat /\ MaxRuns \in Nat
      /\ kind \in [Turns -> {"none", "text", "audio"}] /\ row \in [Runs -> Rows]
      /\ runOf \in [Turns -> Runs \cup {None}] /\ replies \in [Turns -> Nat]
      /\ turn \in Turns \cup {None}
  BY DEF Handlers, ChatAssumption, TypeOK
<1>2. \E n \in 0 .. MaxTurns : {t \in Turns : kind'[t] # "none"} = 1 .. n
  <2>1. CASE Opens
    <3>1. NextTurn \in Turns /\ \E k \in {"text", "audio"} : kind' = [kind EXCEPT ![NextTurn] = k]
      BY <2>1, TurnOpens
    <3>2. {t \in Turns : kind'[t] # "none"} = {t \in Turns : kind[t] # "none"} \cup {NextTurn}
      BY <1>1, <3>1
    <3>3. {t \in Turns : kind[t] # "none"} = 1 .. (NextTurn - 1) /\ NextTurn \in Nat
      BY NextTurnIsNew
    <3>4. NextTurn \in 0 .. MaxTurns
      BY <1>1, <3>1 DEF Turns
    <3>5. {t \in Turns : kind'[t] # "none"} = 1 .. NextTurn
      BY <3>1, <3>2, <3>3 DEF Turns
    <3>6. QED
      BY <3>4, <3>5
  <2>2. CASE ~Opens
    BY <2>2, NothingOpens DEF InOrder
  <2>3. QED
    BY <2>1, <2>2
<1>3. \E n \in 0 .. MaxRuns : {r \in Runs : row'[r] # "none"} = 1 .. n
  <2>1. ASSUME {r \in Runs : row'[r] # "none"} = {r \in Runs : row[r] # "none"}
        PROVE  \E n \in 0 .. MaxRuns : {r \in Runs : row'[r] # "none"} = 1 .. n
    BY <2>1 DEF InOrder
  <2>2. ASSUME NEW p \in Handlers, NEW t \in Turns, Starts(p, t)
        PROVE  \E n \in 0 .. MaxRuns : {r \in Runs : row'[r] # "none"} = 1 .. n
    <3>1. CASE row' = row
      BY <2>1, <3>1
    <3>2. CASE NextRun \in Runs /\ row' = [row EXCEPT ![NextRun] = "reasoning"]
      <4>1. {r \in Runs : row'[r] # "none"} = {r \in Runs : row[r] # "none"} \cup {NextRun}
        BY <1>1, <3>2
      <4>2. {r \in Runs : row[r] # "none"} = 1 .. (NextRun - 1) /\ NextRun \in Nat
        BY NextRunIsNew
      <4>3. NextRun \in 0 .. MaxRuns
        BY <1>1, <3>2 DEF Runs
      <4>4. {r \in Runs : row'[r] # "none"} = 1 .. NextRun
        BY <3>2, <4>1, <4>2 DEF Runs
      <4>5. QED
        BY <4>3, <4>4
    <3>3. QED
      BY <2>2, <3>1, <3>2 DEF Starts
  <2>3. CASE UserMessage
    BY <1>1, <2>2, <2>3, TurnOpens, StartRunFacts DEF UserMessage
  <2>4. CASE FinalStarts
    BY <1>1, <2>1, <2>2, <2>4, TranscriptStarts
  <2>5. CASE ~UserMessage /\ ~FinalStarts
    <3>1. row' = row \/ Rewritten
      BY <2>5, RowsStay
    <3>2. CASE Rewritten
      <4>1. PICK r \in Runs, s \in Rows \ {"none"} : row[r] # "none" /\ row' = [row EXCEPT ![r] = s]
        BY <3>2 DEF Rewritten
      <4>2. {q \in Runs : row'[q] # "none"} = {q \in Runs : row[q] # "none"}
        BY <1>1, <4>1
      <4>3. QED
        BY <2>1, <4>2
    <3>3. QED
      BY <2>1, <3>1, <3>2
  <2>6. QED
    BY <2>3, <2>4, <2>5
<1>4. CASE Opens
  <2>1. /\ NextTurn \in Turns /\ turn' = NextTurn /\ UNCHANGED <<cut, replies>>
        /\ \E k \in {"text", "audio"} : kind' = [kind EXCEPT ![NextTurn] = k]
        /\ at'["sub"] = at["sub"]
    BY <1>4, TurnOpens DEF history
  <2>2. at'["client"].turn \in {None, NextTurn}
    BY <1>1, <1>4, TurnOpens DEF Starts, Moves
  <2>3. runOf' \in {runOf, [runOf EXCEPT ![NextTurn] = NextRun]}
    BY <1>4, TurnOpens DEF Starts
  <2>4. \A t \in Turns : kind'[t] = "none" => kind[t] = "none" /\ t # NextTurn /\ t # None
    BY <1>1, <2>1, Missing
  <2>5. \A t \in Turns : kind'[t] = "none" =>
         /\ t # turn' /\ t \notin cut' /\ runOf'[t] = None /\ replies'[t] = 0
         /\ \A p \in Handlers : at'[p].turn # t
    BY <1>1, <2>1, <2>2, <2>3, <2>4 DEF InOrder
  <2>6. cut' \subseteq Turns
    BY <2>1 DEF InOrder
  <2> HIDE DEF Opens
  <2>7. QED
    BY <1>2, <1>3, <2>5, <2>6 DEF InOrder
<1>5. CASE ~Opens
  <2>1. /\ UNCHANGED kind /\ turn' \in {turn, None}
        /\ cut' \subseteq cut \cup ({turn} \ {None})
        /\ runOf' = runOf \/ (turn # None /\ runOf' = [runOf EXCEPT ![turn] = NextRun])
        /\ \/ replies' = replies
           \/ \E t \in {turn, at["client"].turn} \ {None} : replies' = [replies EXCEPT ![t] = @ + 1]
    BY <1>5, NothingOpens
  <2>2. \A p \in Handlers : at'[p].turn \in {None, turn, at[p].turn}
    <3>1. CASE FinalStarts
      BY <1>1, <3>1, TranscriptStarts DEF Starts, Moves
    <3>2. CASE ~FinalStarts
      BY <1>5, <3>2, HandlersName DEF Names
    <3>3. QED
      BY <3>1, <3>2
  <2>3. ASSUME NEW t \in Turns, kind[t] = "none"
        PROVE  /\ t # turn' /\ t \notin cut' /\ runOf'[t] = None /\ replies'[t] = 0
               /\ \A p \in Handlers : at'[p].turn # t
    <3>1. t # None /\ t # turn /\ t \notin cut /\ runOf[t] = None /\ replies[t] = 0 /\ \A p \in Handlers : at[p].turn # t
      BY <2>3, Missing DEF InOrder
    <3>2. t # turn' /\ t \notin cut' /\ \A p \in Handlers : at'[p].turn # t
      BY <2>1, <2>2, <3>1
    <3>3. runOf'[t] = None
      BY <1>1, <2>1, <3>1
    <3>4. replies'[t] = 0
      BY <1>1, <2>1, <3>1
    <3>5. QED
      BY <3>2, <3>3, <3>4
  <2>4. cut' \subseteq Turns
    BY <1>1, <2>1 DEF InOrder
  <2> HIDE DEF Opens
  <2>5. QED
    BY <1>2, <1>3, <2>1, <2>3, <2>4 DEF InOrder
<1>6. QED
  BY <1>4, <1>5

\* Only the client opens turns, and not while it interrupts.
LEMMA RoomStep ==
    ASSUME ChatAssumption, TypeOK, InOrder, RoomToSpeak, [Next]_vars
    PROVE  RoomToSpeak'
<1>1. "client" \in Handlers /\ Interrupting = {"cancel", "run_end", "publish"}
  BY DEF Handlers, Interrupting
<1>2. CASE UserMessage \/ SpeechStarts \/ SpeechAfterInterrupt
  BY <1>1, <1>2, TurnOpens DEF RoomToSpeak, Starts, Moves, Pc
<1>3. CASE ~UserMessage /\ ~SpeechStarts /\ ~SpeechAfterInterrupt
  <2>1. UNCHANGED kind
    BY <1>3, NothingOpens
  <2>2. NextTurn' = NextTurn
    BY <2>1 DEF NextTurn
  <2>3. ASSUME at'["client"] = at["client"] PROVE RoomToSpeak'
    BY <2>2, <2>3 DEF RoomToSpeak, Pc
  <2>4. ASSUME NEW s, NEW t, Moves("client", s, t), s \notin {"vad", "ready"} \cup Interrupting PROVE RoomToSpeak'
    BY <1>1, <2>4 DEF RoomToSpeak, Pc, Moves
  <2>5. CASE ListenForBargeIn
    BY <2>2, <2>5 DEF ListenForBargeIn, RoomToSpeak
  <2>6. CASE NoSpeech \/ Flush \/ Abort \/ Commit \/ ChunkLost
    BY <1>1, <2>4, <2>6, ClientMoves
  <2>7. CASE Committed
    BY <1>1, <2>4, <2>7, ConnectionEnds DEF RoomToSpeak, Pc
  <2>8. CASE Interrupt
    BY <1>1, <2>8, ClientMoves DEF RoomToSpeak, Pc, Moves
  <2>9. CASE BargeIn
    BY <2>2, <2>9 DEF BargeIn, RoomToSpeak
  <2>10. CASE InterruptRun \/ InterruptPublish
    BY <1>1, <2>2, <2>10, ClientMoves DEF RoomToSpeak, Pc, Moves, InterruptRun, InterruptPublish
  <2>11. CASE InterruptEnds
    BY <1>1, <2>2, <2>4, <2>11, ClientMoves DEF RoomToSpeak, Pc, Moves, InterruptEnds
  <2>12. CASE Hears
    <3>1. at'["client"] = at["client"]
      BY <1>1, <2>12, SubMoves, TranscriptStarts DEF Hears, Moves
    <3>2. QED
      BY <2>3, <3>1
  <2>13. ASSUME NEW p \in Handlers, Starting(p) PROVE RoomToSpeak'
    <3>1. \E s \in {"idle", "failing"} : \E t : Moves(p, s, t)
      BY <2>13, StartingMoves DEF Starting
    <3>2. CASE p = "client"
      BY <1>1, <2>4, <3>1, <3>2
    <3>3. CASE p # "client"
      BY <1>1, <2>3, <3>1, <3>3 DEF Moves
    <3>4. QED
      BY <3>2, <3>3
  <2>14. ASSUME NEW r \in Runs, SpeechEnds(r) \/ Run(r) \/ Voice(r) PROVE UNCHANGED at
    BY <2>14 DEF SpeechEnds, Run, Voice, Begin, CrewEvent, CommandEnds, CrewAnswers, AnswerDropped, AnswerTold,
       AnswerKept, CrewFails, TornDown, Complete,
       RecordCompleted, RecordFailed, RunEnds, Ask, Asked, BlockFails, VoiceEnds, VoiceTimesOut
  <2>15. CASE UNCHANGED vars
    BY <2>3, <2>15 DEF vars
  <2>16. QED
    BY <1>3, <2>3, <2>5, <2>6, <2>7, <2>8, <2>9, <2>10, <2>11, <2>12, <2>13, <2>14, <2>15 DEF Next, Client, Subscriber
<1>4. QED
  BY <1>2, <1>3

\* A run is made for a turn while nothing of it has begun.
LEMMA OneTurnStep ==
    ASSUME ChatAssumption, TypeOK, InOrder, RoomToSpeak, OneTurnEach, OwnTurn, [Next]_vars
    PROVE  OneTurnEach'
<1>1. /\ Handlers = {"client", "sub"} /\ row \in [Runs -> Rows] /\ stage \in [Runs -> RunStages]
      /\ of \in [Runs -> Turns \cup {None}] /\ runOf \in [Turns -> Runs \cup {None}]
  BY DEF Handlers, TypeOK
<1>2. ASSUME NEW p \in Handlers, NEW t \in Turns, Starts(p, t), UNCHANGED stage PROVE OneTurnEach'
  <2>1. CASE Moves(p, "create_failed", None) /\ UNCHANGED <<row, of, runOf>>
    BY <1>1, <1>2, <2>1 DEF OneTurnEach, Moves, Pc
  <2>2. CASE /\ NextRun \in Runs
             /\ row' = [row EXCEPT ![NextRun] = "reasoning"]
             /\ of' = [of EXCEPT ![NextRun] = t]
             /\ runOf' = [runOf EXCEPT ![t] = NextRun]
             /\ Moves(p, "starting", None) /\ at'[p].run = NextRun
    <3>1. row[NextRun] = "none" /\ NextRun # None /\ stage[NextRun] = "none" /\ t # None
      BY <2>2, NextRunIsNew, Missing DEF OneTurnEach
    <3>2. \A r \in Runs : row'[r] # "none" <=> (row[r] # "none" \/ r = NextRun)
      BY <1>1, <2>2
    <3>3. \A r \in Runs : row'[r] # "none" => of'[r] # None /\ runOf'[of'[r]] # None
      BY <1>1, <2>2, <3>1, <3>2 DEF OneTurnEach
    <3>4. \A u \in Turns : runOf'[u] # None => row'[runOf'[u]] # "none" /\ of'[runOf'[u]] = u
      BY <1>1, <2>2, <3>1, <3>2 DEF OneTurnEach
    <3>5. \A q \in Handlers : Pc(q, "starting")' =>
            at'[q].run \in Runs /\ row'[at'[q].run] # "none" /\ stage'[at'[q].run] = "none"
      BY <1>1, <1>2, <2>2, <3>1, <3>2 DEF OneTurnEach, Moves, Pc
    <3>6. \A q \in Handlers : q # p /\ at'[q].pc = "starting" => at'[q].run # NextRun
      BY <1>1, <2>2, <3>1 DEF OneTurnEach, Moves, Pc
    <3>7. Pc("client", "starting")' /\ Pc("sub", "starting")' => at'["client"].run # at'["sub"].run
      BY <1>1, <2>2, <3>6 DEF Pc
    <3>8. QED
      BY <1>2, <3>1, <3>2, <3>3, <3>4, <3>5, <3>7 DEF OneTurnEach
  <2>3. QED
    BY <1>2, <2>1, <2>2 DEF Starts
<1>3. ASSUME UNCHANGED <<of, runOf>>, row' = row \/ Rewritten,
             \A p \in Handlers : at'[p].pc = "starting" => at'[p] = at[p]
      PROVE  OneTurnEach'
  <2>1. \A r \in Runs : row'[r] = "none" <=> row[r] = "none"
    BY <1>1, <1>3 DEF Rewritten
  <2>2. CASE UNCHANGED stage
    BY <1>1, <1>3, <2>1, <2>2 DEF OneTurnEach, Pc, TypeOK
  <2>3. ASSUME NEW r \in Runs, NEW s \in RunStages \ {"none"}, Live(r), stage' = [stage EXCEPT ![r] = s]
        PROVE  OneTurnEach'
    BY <1>1, <1>3, <2>1, <2>3 DEF OneTurnEach, Pc, TypeOK, Live
  <2>4. ASSUME NEW p \in Handlers, StartTask(p), stage' = [stage EXCEPT ![at[p].run] = "created"]
        PROVE  OneTurnEach'
    <3>1. at[p].run \in Runs /\ row[at[p].run] # "none"
      BY <2>4 DEF StartTask, OneTurnEach
    <3>2. at'[p].pc = "idle" /\ \A q \in Handlers : q # p => at'[q] = at[q]
      BY <2>4, StartingMoves DEF Moves
    <3>3. \A q \in Handlers : q # p /\ Pc(q, "starting") => at[q].run # at[p].run
      BY <1>1, <2>4 DEF StartTask, OneTurnEach
    <3>4. \A q \in Handlers : Pc(q, "starting")' =>
            at'[q].run \in Runs /\ row'[at'[q].run] # "none" /\ stage'[at'[q].run] = "none"
      BY <1>1, <2>1, <2>4, <3>1, <3>2, <3>3 DEF OneTurnEach, Pc
    <3>5. ~(Pc("client", "starting")' /\ Pc("sub", "starting")')
      BY <1>1, <3>2 DEF Pc
    <3>6. \A r \in Runs : row'[r] = "none" => stage'[r] = "none"
      BY <1>1, <2>1, <2>4, <3>1 DEF OneTurnEach
    <3>7. QED
      BY <1>1, <1>3, <2>1, <3>4, <3>5, <3>6 DEF OneTurnEach
  <2>5. QED
    BY <2>2, <2>3, <2>4, StagesMove
<1>4. CASE UserMessage
  BY <1>1, <1>2, <1>4, TurnOpens, StartRunFacts DEF UserMessage
<1>5. CASE FinalStarts
  <2>1. \/ /\ turn = None /\ Moves("sub", "idle", None) /\ UNCHANGED <<state, row, of, runOf, faults>>
        \/ turn \in Turns /\ Starts("sub", turn)
    BY <1>5, TranscriptStarts
  <2>2. UNCHANGED stage
    BY <1>5, TranscriptStarts
  <2>3. CASE Moves("sub", "idle", None) /\ UNCHANGED <<state, row, of, runOf, faults>>
    BY <1>1, <1>3, <2>3 DEF Moves
  <2>4. QED
    BY <1>1, <1>2, <2>1, <2>2, <2>3
<1>6. CASE (SpeechStarts \/ SpeechAfterInterrupt) /\ ~UserMessage
  <2>1. Moves("client", "flush", NextTurn) /\ UNCHANGED <<row, of, runOf, faults>>
    BY <1>6, TurnOpens
  <2>2. \A p \in Handlers : at'[p].pc = "starting" => at'[p] = at[p]
    BY <1>1, <2>1 DEF Moves
  <2>3. QED
    BY <1>3, <2>1, <2>2
<1>7. CASE ~UserMessage /\ ~FinalStarts /\ ~SpeechStarts /\ ~SpeechAfterInterrupt
  BY <1>3, <1>7, RowsStay, HandlersName DEF Names
<1>8. QED
  BY <1>4, <1>5, <1>6, <1>7

\* The stages that answer, and what they hold.
LEMMA AnswersMove ==
    ASSUME ChatAssumption, TypeOK, OneTurnEach, [Next]_vars
    PROVE  /\ holds' \in [Runs -> Turns \cup {None}]
           /\ \A r \in Runs : Answering(r)' =>
                \/ Answering(r) /\ holds'[r] = holds[r]
                \/ Complete(r) /\ stage[r] = "drain" /\ turn # None /\ holds'[r] = turn
           /\ \A r \in Runs : Live(r)' => Live(r) \/ (\E p \in Handlers : StartTask(p) /\ at[p].run = r)
<1>1. /\ stage \in [Runs -> RunStages] /\ holds \in [Runs -> Turns \cup {None}] /\ turn \in Turns \cup {None}
  BY DEF TypeOK
<1>2. \A r \in Runs : Live(r)' => Live(r) \/ (\E p \in Handlers : StartTask(p) /\ at[p].run = r)
  <2>1. ASSUME NEW r \in Runs, NEW s \in RunStages \ {"none"}, Live(r), stage' = [stage EXCEPT ![r] = s]
        PROVE  \A q \in Runs : Live(q)' => Live(q)
    BY <1>1, <2>1 DEF Live
  <2>2. ASSUME NEW p \in Handlers, StartTask(p), stage' = [stage EXCEPT ![at[p].run] = "created"]
        PROVE  \A r \in Runs : Live(r)' => Live(r) \/ at[p].run = r
    BY <1>1, <2>2 DEF Live
  <2>3. CASE UNCHANGED stage
    BY <2>3 DEF Live
  <2>4. QED
    BY <2>1, <2>2, <2>3, StagesMove
<1>3. ASSUME UNCHANGED holds, \A r \in Runs : Answering(r)' => Answering(r) PROVE
           /\ holds' \in [Runs -> Turns \cup {None}]
           /\ \A r \in Runs : Answering(r)' => Answering(r) /\ holds'[r] = holds[r]
  BY <1>1, <1>3
<1>4. ASSUME UNCHANGED <<holds, stage>> PROVE
           /\ holds' \in [Runs -> Turns \cup {None}]
           /\ \A r \in Runs : Answering(r)' => Answering(r) /\ holds'[r] = holds[r]
  BY <1>1, <1>4 DEF Answering
<1>5. ASSUME UNCHANGED holds, NEW q \in Runs, NEW s, s \in {"emit", "complete"} => Answering(q), stage' = [stage EXCEPT ![q] = s]
      PROVE  /\ holds' \in [Runs -> Turns \cup {None}]
             /\ \A r \in Runs : Answering(r)' => Answering(r) /\ holds'[r] = holds[r]
  BY <1>1, <1>5 DEF Answering
<1>6. CASE InterruptRun
  <2>1. UNCHANGED holds /\ (UNCHANGED stage \/ (runTask \in Runs /\ \E s \in {"done", "stopping"} : stage' = [stage EXCEPT ![runTask] = s]))
    BY <1>6 DEF InterruptRun, Live
  <2>2. QED
    BY <1>4, <1>5, <2>1, <1>2
<1>7. ASSUME Client, ~InterruptRun PROVE UNCHANGED <<holds, stage>>
  BY <1>7 DEF Client, UserMessage, StartRun, ListenForBargeIn, NoSpeech, SpeechStarts, SpeechAfterInterrupt, Flush,
     Abort, Commit, Committed, ChunkLost, Interrupt, BargeIn, Execute, InterruptPublish, InterruptEnds, runs
<1>8. ASSUME Subscriber PROVE UNCHANGED <<holds, stage>>
  BY <1>8 DEF Subscriber, Hears, Final, FinalCloses, FinalStarts, StartRun, SpeechEnds, runs
<1>9. ASSUME NEW p \in Handlers, CreateFailed(p) \/ GiveUpTurn(p) PROVE UNCHANGED <<holds, stage>>
  BY <1>9 DEF CreateFailed, GiveUpTurn, runs
<1>10. ASSUME NEW p \in Handlers, StartTask(p)
       PROVE  /\ holds' \in [Runs -> Turns \cup {None}]
              /\ \A r \in Runs : Answering(r)' => Answering(r) /\ holds'[r] = holds[r]
  <2>1. UNCHANGED holds /\ stage' = [stage EXCEPT ![at[p].run] = "created"] /\ at[p].run \in Runs
    BY <1>10 DEF StartTask, OneTurnEach
  <2>2. QED
    BY <1>5, <2>1
<1>11. ASSUME NEW q \in Runs, Run(q), ~Complete(q), ~RunEnds(q)
       PROVE  /\ holds' \in [Runs -> Turns \cup {None}]
              /\ \A r \in Runs : Answering(r)' => Answering(r) /\ holds'[r] = holds[r]
  <2>1. /\ UNCHANGED holds
        /\ \/ UNCHANGED stage
           \/ \E s \in {"command", "working", "answered", "telling", "error", "drain", "stopping", "giving_up", "done", "failing"} :
                stage' = [stage EXCEPT ![q] = s]
           \/ stage' = [stage EXCEPT ![q] = "complete"] /\ stage[q] = "emit"
    BY <1>11 DEF Run, Begin, CrewEvent, CommandEnds, CrewAnswers, AnswerDropped, AnswerTold, AnswerKept,
       CrewFails, TornDown, RecordCompleted, RecordFailed, runs
  <2>2. QED
    BY <1>4, <1>5, <2>1 DEF Answering
<1>12. ASSUME NEW q \in Runs, Complete(q)
       PROVE  /\ holds' \in [Runs -> Turns \cup {None}]
              /\ \A r \in Runs : Answering(r)' =>
                   \/ Answering(r) /\ holds'[r] = holds[r]
                   \/ r = q /\ stage[r] = "drain" /\ turn # None /\ holds'[r] = turn
  <2>1. CASE turn = None
    <3>1. UNCHANGED holds /\ stage' = [stage EXCEPT ![q] = "done"]
      BY <1>12, <2>1 DEF Complete
    <3>2. QED
      BY <1>5, <3>1
  <2>2. CASE turn # None
    <3>1. stage[q] = "drain" /\ holds' = [holds EXCEPT ![q] = turn] /\ stage' = [stage EXCEPT ![q] = "emit"]
      BY <1>12, <2>2 DEF Complete
    <3>2. QED
      BY <1>1, <2>2, <3>1 DEF Answering
  <2>3. QED
    BY <2>1, <2>2
<1>13. ASSUME NEW q \in Runs, RunEnds(q)
       PROVE  /\ holds' \in [Runs -> Turns \cup {None}]
              /\ \A r \in Runs : Answering(r)' => Answering(r) /\ holds'[r] = holds[r]
  <2>1. holds' = [holds EXCEPT ![q] = None] /\ stage' = [stage EXCEPT ![q] = "done"]
    BY <1>13 DEF RunEnds
  <2>2. QED
    BY <1>1, <2>1 DEF Answering
<1>14. ASSUME NEW q \in Runs, Voice(q)
       PROVE  /\ holds' \in [Runs -> Turns \cup {None}]
              /\ \A r \in Runs : Answering(r)' => Answering(r) /\ holds'[r] = holds[r]
  <2>1. VoiceTimesOut(q) => UNCHANGED holds /\ stage' = [stage EXCEPT ![q] = "done"]
    BY DEF VoiceTimesOut
  <2>2. ~VoiceTimesOut(q) => UNCHANGED <<holds, stage>>
    BY <1>14 DEF Voice, Ask, Asked, BlockFails, VoiceEnds, runs
  <2>3. QED
    BY <1>4, <1>5, <2>1, <2>2
<1>15. CASE UNCHANGED vars
  BY <1>2, <1>4, <1>15 DEF vars, runs
<1>16. QED
  BY <1>2, <1>4, <1>6, <1>7, <1>8, <1>9, <1>10, <1>11, <1>12, <1>13, <1>14, <1>15 DEF Next, Starting

\* The audio that is recorded, and the transcripts on their way.
AsrMoves ==
    \/ UNCHANGED asr
    \/ Flush /\ buffer' = buffer \cup {at["client"].turn} /\ UNCHANGED finals /\ Moves("client", "idle", None)
    \/ (Commit \/ InterruptRun) /\ buffer' = {} /\ (finals' = finals \/ (buffer # {} /\ finals' = Append(finals, buffer)))
    \/ /\ finals # <<>> /\ finals' = Tail(finals) /\ UNCHANGED buffer
       /\ \/ FinalCloses \/ FinalStarts
          \/ (at' = at /\ Pc("sub", "idle") /\ FinalizeToReady(None) /\ \E text \in {"text", "control", "noise"} : Final(text))

LEMMA AsrStep ==
    ASSUME ChatAssumption, TypeOK, OwnWords, [Next]_vars
    PROVE  AsrMoves
<1>1. CASE UNCHANGED vars
  BY <1>1 DEF vars, AsrMoves
<1>2. CASE Client
  <2>1. ASSUME Flush PROVE AsrMoves
    <3>1. at \in [Handlers -> Awaits] /\ "client" \in Handlers
      BY DEF TypeOK, Handlers
    <3>2. Return("client") => Moves("client", "idle", None)
      BY <3>1, Returns
    <3>3. QED
      BY <2>1, <3>2 DEF Flush, AsrMoves, asr
  <2>2. Commit => UNCHANGED asr \/ (buffer' = {} /\ (finals' = finals \/ (buffer # {} /\ finals' = Append(finals, buffer))))
    BY DEF Commit, AsrCommit
  <2>3. InterruptRun => UNCHANGED asr \/ (buffer' = {} /\ (finals' = finals \/ (buffer # {} /\ finals' = Append(finals, buffer))))
    BY DEF InterruptRun, AsrCommit
  <2>4. ASSUME ~Flush, ~Commit, ~InterruptRun PROVE UNCHANGED asr
    BY <1>2, <2>4 DEF Client, UserMessage, ListenForBargeIn, NoSpeech, SpeechStarts, SpeechAfterInterrupt,
       Abort, Committed, ChunkLost, Interrupt, BargeIn, Execute, InterruptPublish, InterruptEnds, asr
  <2>5. QED
    BY <2>1, <2>2, <2>3, <2>4 DEF AsrMoves
<1>3. CASE Hears
  <2>1. FinalCloses \/ FinalStarts => /\ finals # <<>> /\ finals' = Tail(finals) /\ UNCHANGED buffer
    BY DEF FinalCloses, FinalStarts, OwnWords, Pc
  <2>2. ASSUME NEW text \in {"text", "control", "noise"}, Final(text) PROVE AsrMoves
    <3>1. /\ UNCHANGED buffer /\ finals # <<>> /\ Pc("sub", "idle")
          /\ \/ at' = at /\ FinalizeToReady(None) /\ finals' = Tail(finals)
             \/ UNCHANGED finals
      BY <2>2 DEF Final
    <3>2. QED
      BY <2>2, <3>1 DEF AsrMoves, asr
  <2>3. QED
    BY <1>3, <2>1, <2>2 DEF Hears, AsrMoves
<1>4. CASE \E p \in Handlers : Starting(p)
  BY <1>4 DEF Starting, StartTask, CreateFailed, GiveUpTurn, AsrMoves
<1>5. CASE \E r \in Runs : SpeechEnds(r) \/ Run(r) \/ Voice(r)
  BY <1>5 DEF SpeechEnds, Run, Voice, Begin, CrewEvent, CommandEnds, CrewAnswers, AnswerDropped, AnswerTold,
     AnswerKept, CrewFails, TornDown, Complete,
     RecordCompleted, RecordFailed, RunEnds, Ask, Asked, BlockFails, VoiceEnds, VoiceTimesOut, AsrMoves, asr
<1>6. QED
  BY <1>1, <1>2, <1>3, <1>4, <1>5 DEF Next, Subscriber
-----------------------------------------------------------------------------
(* The open turn                                                            *)

\* The turn stays, or a transcript of it begins to be awaited.
Stays == /\ UNCHANGED <<turn, runTask, strays>>
         /\ committed' = committed \/ (turn # None /\ committed' = TRUE)
         /\ state' = state \/ state' # "ready"

\* It is finalized by r, or by none of the runs.
Closes(r) == /\ turn' = None /\ runTask' = None /\ committed' = FALSE /\ state' = "ready"
             /\ strays' = strays \cup {q \in {runTask} : Live(q) /\ q # r}

\* The steps that close it.
Closing(r) ==
    IF r = None
    THEN \/ Abort \/ InterruptEnds \/ FinalCloses \/ \E p \in Handlers : GiveUpTurn(p)
         \/ (at' = at /\ Pc("sub", "idle") /\ finals # <<>> /\ finals' = Tail(finals))
    ELSE r \in Runs /\ RunEnds(r)

LEMMA FieldsMove ==
    ASSUME ChatAssumption, TypeOK, InOrder, RoomToSpeak, [Next]_vars,
           ~UserMessage, ~SpeechStarts, ~SpeechAfterInterrupt, \A p \in Handlers : ~StartTask(p)
    PROVE  Stays \/ \E r \in Runs \cup {None} : Closes(r) /\ Closing(r)
<1>1. None \notin Runs
  BY Missing
<1>2. Abort \/ InterruptEnds \/ FinalCloses \/ (\E p \in Handlers : GiveUpTurn(p)) => Closes(None) /\ Closing(None)
  BY <1>1 DEF Abort, InterruptEnds, FinalCloses, GiveUpTurn, FinalizeToReady, Finalize, Closes, Closing
<1>3. \A r \in Runs : RunEnds(r) => Closes(r) /\ Closing(r)
  BY <1>1 DEF RunEnds, FinalizeToReady, Finalize, Closes, Closing
<1>4. ASSUME NEW text \in {"text", "control", "noise"}, Final(text) PROVE Stays \/ (Closes(None) /\ Closing(None))
  <2>1. Pc("sub", "idle") /\ finals # <<>>
    BY <1>4 DEF Final
  <2>2. CASE at' = at /\ FinalizeToReady(None) /\ finals' = Tail(finals)
    BY <1>4, <2>1, <2>2 DEF FinalizeToReady, Finalize, Closes, Closing
  <2>3. CASE UNCHANGED <<fields, strays, finals>>
    BY <2>3 DEF Stays, fields
  <2>4. QED
    BY <1>4, <2>2, <2>3, SubMoves
<1>5. CASE Client
  <2>1. InterruptRun \/ InterruptPublish => Stays
    BY DEF InterruptRun, InterruptPublish, Stays, fields, history
  <2>2. Commit => Stays
    BY DEF Commit, Stays, IsAudio
  <2>3. Committed => Stays
    BY DEF Committed, Stays, history
  <2>4. Flush \/ ChunkLost \/ NoSpeech \/ ListenForBargeIn \/ Interrupt \/ BargeIn => Stays
    BY DEF Flush, ChunkLost, NoSpeech, ListenForBargeIn, Interrupt, BargeIn, Execute, Stays, fields, history
  <2>5. QED
    BY <1>2, <1>5, <2>1, <2>2, <2>3, <2>4 DEF Client
<1>6. CASE Subscriber
  <2>1. FinalStarts => Stays
    <3>1. FinalStarts => UNCHANGED <<turn, runTask, committed, history>>
      BY DEF FinalStarts
    <3>2. FinalStarts => state' = state \/ state' = "busy"
      BY DEF FinalStarts, StartRun
    <3>3. QED
      BY <3>1, <3>2 DEF Stays, history
  <2>2. ASSUME NEW r \in Runs, SpeechEnds(r) PROVE Stays
    BY <2>2 DEF SpeechEnds, Stays, fields, history
  <2>3. QED
    BY <1>2, <1>4, <1>6, <2>1, <2>2 DEF Subscriber, Hears
<1>7. ASSUME NEW p \in Handlers, CreateFailed(p) PROVE Stays
  BY <1>7 DEF CreateFailed, Stays, history
<1>8. ASSUME NEW r \in Runs, Run(r), ~RunEnds(r) PROVE Stays
  BY <1>8 DEF Run, Begin, CrewEvent, CommandEnds, CrewAnswers, AnswerDropped, AnswerTold, AnswerKept, CrewFails,
     TornDown, Complete, RecordCompleted, RecordFailed,
     Stays, fields, history
<1>9. ASSUME NEW r \in Runs, Voice(r) PROVE Stays
  BY <1>9 DEF Voice, Ask, Asked, BlockFails, VoiceEnds, VoiceTimesOut, Stays, fields, history
<1>10. CASE UNCHANGED vars
  BY <1>10 DEF vars, Stays, fields, history
<1>11. QED
  BY <1>2, <1>3, <1>5, <1>6, <1>7, <1>8, <1>9, <1>10 DEF Next, Starting

\* What the client does while the turn stays, is closed, or gets its task.
ClientGoes ==
    \/ at'["client"] = at["client"]
    \/ /\ at'["client"].pc \notin Interrupting \cup {"flush", "ready"}
       /\ Pc("client", "create_failed") => state' # "ready"
       /\ at["client"].pc \in Interrupting => turn' = None
    \/ /\ Interrupt \/ BargeIn
       /\ at'["client"].pc = "cancel" /\ at'["client"].turn = turn /\ cut' = cut \cup ({turn} \ {None})
       /\ ~Pc("client", "create_failed")
    \/ /\ InterruptRun \/ InterruptPublish
       /\ at["client"].pc \in Interrupting /\ at'["client"].pc \in Interrupting
       /\ at'["client"].turn = at["client"].turn
    \/ at'["client"].pc = "ready" /\ turn' = None

LEMMA ClientStep ==
    ASSUME ChatAssumption, TypeOK, InOrder, RoomToSpeak, [Next]_vars,
           ~UserMessage, ~SpeechStarts, ~SpeechAfterInterrupt
    PROVE  ClientGoes
<1>1. "client" \in Handlers /\ Interrupting = {"cancel", "run_end", "publish"}
  BY DEF Handlers, Interrupting
<1>2. CASE NoSpeech \/ Flush \/ Abort \/ Commit \/ ChunkLost \/ ListenForBargeIn
  <2>1. ~Pc("client", "create_failed") /\ at["client"].pc \notin Interrupting
    BY <1>1, <1>2 DEF NoSpeech, Flush, Abort, Commit, ChunkLost, ListenForBargeIn, Pc
  <2>2. at'["client"].pc \in {"idle", "abort", "commit", "vad"}
    BY <1>2, ClientMoves DEF Moves
  <2>3. QED
    BY <1>1, <2>1, <2>2 DEF ClientGoes
<1>3. CASE Committed
  <2>1. at'["client"].pc \in {"idle", "closed"} /\ ~Pc("client", "create_failed") /\ at["client"].pc \notin Interrupting
    BY <1>1, <1>3, ConnectionEnds DEF Moves, Committed, Pc
  <2>2. QED
    BY <1>1, <2>1 DEF ClientGoes
<1>4. CASE Interrupt \/ BargeIn
  BY <1>4, ClientMoves DEF Moves, Interrupt, BargeIn, Execute, ClientGoes, Pc
<1>5. CASE InterruptRun \/ InterruptPublish
  BY <1>1, <1>5, ClientMoves DEF Moves, InterruptRun, InterruptPublish, ClientGoes, Pc
<1>6. CASE InterruptEnds
  <2>1. at'["client"].pc \in {"idle", "ready"} /\ turn' = None /\ ~Pc("client", "create_failed")
    BY <1>6, ClientMoves DEF Moves, InterruptEnds, FinalizeToReady, Finalize, Pc
  <2>2. QED
    BY <1>1, <2>1 DEF ClientGoes
<1>7. CASE Hears
  <2>1. at'["client"] = at["client"]
    BY <1>1, <1>7, SubMoves, TranscriptStarts DEF Hears, Moves
  <2>2. QED
    BY <2>1 DEF ClientGoes
<1>8. ASSUME NEW p \in Handlers, Starting(p) PROVE ClientGoes
  <2>1. CASE p # "client"
    <3>1. at'["client"] = at["client"]
      BY <1>1, <1>8, <2>1, StartingMoves DEF Starting, Moves
    <3>2. QED
      BY <3>1 DEF ClientGoes
  <2>2. CASE p = "client"
    <3>1. at'["client"].pc \in {"idle", "failing"}
      BY <1>1, <1>8, <2>2, StartingMoves DEF Starting, Moves
    <3>2. (Pc("client", "create_failed") => state' = "failed") /\ at["client"].pc \notin Interrupting
      BY <1>1, <1>8, <2>2 DEF Starting, StartTask, CreateFailed, GiveUpTurn, Pc
    <3>3. QED
      BY <1>1, <3>1, <3>2 DEF ClientGoes
  <2>3. QED
    BY <2>1, <2>2
<1>9. ASSUME NEW r \in Runs, SpeechEnds(r) \/ Run(r) \/ Voice(r) PROVE UNCHANGED at
  BY <1>9 DEF SpeechEnds, Run, Voice, Begin, CrewEvent, CommandEnds, CrewAnswers, AnswerDropped, AnswerTold,
     AnswerKept, CrewFails, TornDown, Complete,
     RecordCompleted, RecordFailed, RunEnds, Ask, Asked, BlockFails, VoiceEnds, VoiceTimesOut
<1>10. CASE UNCHANGED vars
  BY <1>10 DEF vars, ClientGoes
<1>11. QED
  BY <1>2, <1>3, <1>4, <1>5, <1>6, <1>7, <1>8, <1>9, <1>10 DEF Next, Client, Subscriber, ClientGoes

\* The history only grows.
LEMMA HistoryGrows ==
    ASSUME [Next]_vars
    PROVE  cut \subseteq cut' /\ strays \subseteq strays' /\ overlapped \subseteq overlapped'
<1>1. CASE Client
  <2>1. Commit \/ InterruptRun => cut \subseteq cut' /\ UNCHANGED <<strays, overlapped>>
    BY DEF Commit, InterruptRun
  <2>2. QED
    BY <1>1, <2>1 DEF Client, UserMessage, ListenForBargeIn, NoSpeech, SpeechStarts, SpeechAfterInterrupt, Flush,
       Abort, Committed, ChunkLost, Interrupt, BargeIn, Execute, InterruptPublish, InterruptEnds,
       FinalizeToReady, Finalize, history
<1>2. CASE Subscriber
  BY <1>2 DEF Subscriber, Hears, Final, FinalCloses, FinalStarts, SpeechEnds, FinalizeToReady, Finalize, history
<1>3. CASE \E p \in Handlers : Starting(p)
  BY <1>3 DEF Starting, StartTask, CreateFailed, GiveUpTurn, FinalizeToReady, Finalize, history
<1>4. CASE \E r \in Runs : Run(r) \/ Voice(r)
  BY <1>4 DEF Run, Voice, Begin, CrewEvent, CommandEnds, CrewAnswers, AnswerDropped, AnswerTold, AnswerKept,
     CrewFails, TornDown, Complete,
     RecordCompleted, RecordFailed, RunEnds, Ask, Asked, BlockFails, VoiceEnds, VoiceTimesOut,
     FinalizeToReady, Finalize, history
<1>5. CASE UNCHANGED vars
  BY <1>5 DEF vars, history
<1>6. QED
  BY <1>1, <1>2, <1>3, <1>4, <1>5 DEF Next

\* A new turn follows a closed one.
LEMMA OpensFromNothing ==
    ASSUME TypeOK, OpenTurn, UserMessage \/ SpeechStarts \/ SpeechAfterInterrupt
    PROVE  turn = None /\ ~committed
  BY DEF OpenTurn, UserMessage, SpeechStarts, SpeechAfterInterrupt, Pc, TypeOK

\* The task of a run, and the turn it was made for.
LEMMA TaskFacts ==
    ASSUME ChatAssumption, TypeOK, OneTurnEach, NEW p \in Handlers, StartTask(p)
    PROVE  LET r == at[p].run IN
             /\ r \in Runs /\ of[r] \in Turns /\ stage[r] = "none" /\ r \notin {None}
             /\ stage' = [stage EXCEPT ![r] = "created"] /\ runTask' = r
             /\ strays' = strays \cup {q \in {runTask} : Live(q)} \cup {q \in {r} : ~Owns(q)}
             /\ Owns(r) => turn = of[r] /\ turn # None
             /\ UNCHANGED <<state, turn, committed, of, holds, cut>>
<1> DEFINE r == at[p].run
<1>1. r \in Runs /\ row[r] # "none" /\ stage[r] = "none"
  BY DEF StartTask, OneTurnEach
<1>2. /\ stage' = [stage EXCEPT ![r] = "created"] /\ runTask' = r
      /\ strays' = strays \cup {q \in {runTask} : Live(q)} \cup {q \in {r} : ~Owns(q)}
      /\ UNCHANGED <<state, turn, committed, of, holds, cut>>
  BY DEF StartTask
<1> HIDE DEF r
<1>3. of[r] \in Turns /\ runOf[of[r]] # None
  BY <1>1 DEF OneTurnEach, TypeOK
<1>4. Owns(r) => turn = of[r] /\ turn # None
  BY <1>3 DEF Owns, OneTurnEach, TypeOK
<1>5. r # None
  BY <1>1, Missing
<1> USE DEF r
<1>6. QED
  BY <1>1, <1>2, <1>3, <1>4, <1>5

\* A closed session has no open turn.
LEMMA OpenTurnStep ==
    ASSUME ChatAssumption, TypeOK, InOrder, RoomToSpeak, OneTurnEach, OpenTurn, [Next]_vars
    PROVE  OpenTurn'
<1> DEFINE Opens == UserMessage \/ SpeechStarts \/ SpeechAfterInterrupt
<1>1. "client" \in Handlers /\ Interrupting = {"cancel", "run_end", "publish"}
      /\ turn \in Turns \cup {None} /\ committed \in BOOLEAN
  BY DEF Handlers, Interrupting, TypeOK
<1>2. CASE Opens
  <2>1. turn' = NextTurn /\ NextTurn # None
    BY <1>2, TurnOpens
  <2>2. CASE UserMessage
    <3>1. Starts("client", NextTurn) /\ UNCHANGED committed
      BY <1>1, <2>2, StartRunFacts DEF UserMessage
    <3>2. at'["client"].pc \in {"starting", "create_failed"} /\ (state' = "ready" => at'["client"].pc = "create_failed")
      BY <2>2, <3>1 DEF Starts, Moves, UserMessage
    <3>3. QED
      BY <1>1, <2>1, <3>1, <3>2 DEF OpenTurn, Pc
  <2>3. CASE ~UserMessage
    <3>1. Moves("client", "flush", NextTurn) /\ state' = "buffering"
      BY <1>2, <2>3, TurnOpens
    <3>2. QED
      BY <1>1, <2>1, <3>1 DEF OpenTurn, Pc, Moves
  <2>4. QED
    BY <2>2, <2>3
<1>3. ASSUME NEW p \in Handlers, StartTask(p), ~Opens PROVE OpenTurn'
  <2> DEFINE r == at[p].run
  <2>1. /\ runTask' = r /\ (r \in strays' \/ turn # None)
        /\ UNCHANGED <<state, turn, committed, cut>>
    BY <1>3, TaskFacts
  <2>2. at'["client"] = at["client"] \/ (at'["client"].pc = "idle" /\ Pc("client", "starting"))
    <3>1. Moves(p, "idle", None) /\ Pc(p, "starting")
      BY <1>3, StartingMoves DEF StartTask
    <3>2. QED
      BY <1>1, <3>1 DEF Moves
  <2> HIDE DEF r
  <2>3. runTask' = None \/ runTask' \in strays' \/ turn' # None
    BY <2>1
  <2>4. state' = "ready" /\ turn' # None => Pc("client", "create_failed")'
    BY <2>1, <2>2 DEF OpenTurn, Pc
  <2>5. /\ Pc("client", "ready")' => turn' = None
        /\ Pc("client", "flush")' => at'["client"].turn # None
        /\ at'["client"].pc \in Interrupting \cup {"flush"} => turn' \in {None, at'["client"].turn}
        /\ at'["client"].pc \in Interrupting => at'["client"].turn \in cut' \cup {None}
    BY <1>1, <2>1, <2>2 DEF OpenTurn, Pc
  <2> HIDE DEF Opens
  <2>6. committed' => turn' # None
    BY <2>1 DEF OpenTurn
  <2>7. QED
    BY <2>3, <2>4, <2>5, <2>6 DEF OpenTurn
<1>4. CASE ~Opens /\ \A p \in Handlers : ~StartTask(p)
  <2>1. ClientGoes /\ cut \subseteq cut' /\ strays \subseteq strays'
    BY <1>4, ClientStep, HistoryGrows
  <2>2. at'["client"].pc \in Interrupting => at'["client"].turn \in cut' \cup {None}
    BY <1>1, <2>1 DEF ClientGoes, OpenTurn, Pc
  <2>3. CASE Stays
    <3>1. turn' = turn /\ runTask' = runTask /\ (committed' => turn # None) /\ (state' = state \/ state' # "ready")
      BY <2>3 DEF Stays, OpenTurn
    <3>2. state' = "ready" /\ turn' # None => Pc("client", "create_failed")'
      BY <1>1, <2>1, <3>1 DEF ClientGoes, OpenTurn, Pc
    <3>3. Pc("client", "ready")' => turn' = None
      BY <1>1, <2>1, <3>1 DEF ClientGoes, OpenTurn, Pc
    <3>6. Pc("client", "flush")' => at'["client"].turn # None
      BY <1>1, <2>1, <3>1 DEF ClientGoes, OpenTurn, Pc
    <3>4. at'["client"].pc \in Interrupting \cup {"flush"} => turn' \in {None, at'["client"].turn}
      BY <1>1, <2>1, <3>1 DEF ClientGoes, OpenTurn, Pc
    <3> HIDE DEF Opens
    <3>5. QED
      BY <2>1, <2>2, <3>1, <3>2, <3>3, <3>6, <3>4 DEF OpenTurn
  <2>4. CASE \E r \in Runs \cup {None} : Closes(r)
    <3>1. Pc("client", "flush")' => at'["client"].turn # None
      BY <1>1, <2>1 DEF ClientGoes, OpenTurn, Pc
    <3>2. QED
      BY <2>2, <2>4, <3>1 DEF OpenTurn, Closes
  <2>5. QED
    BY <1>4, <2>3, <2>4, FieldsMove
<1>5. QED
  BY <1>2, <1>3, <1>4

\* A run loses its turn when somebody else finalizes it.
LEMMA OwnTurnStep ==
    ASSUME ChatAssumption, TypeOK, InOrder, RoomToSpeak, OneTurnEach, OpenTurn, OwnTurn, [Next]_vars
    PROVE  OwnTurn'
<1> DEFINE Opens == UserMessage \/ SpeechStarts \/ SpeechAfterInterrupt
<1>1. "client" \in Handlers /\ turn \in Turns \cup {None} /\ of \in [Runs -> Turns \cup {None}]
      /\ stage \in [Runs -> RunStages]
  BY DEF Handlers, TypeOK
<1>2. \A r \in Runs : Live(r) \/ Answering(r) => of[r] \in Turns /\ of[r] # None /\ stage[r] # "none" /\ Live(r)
  BY Missing DEF TypeOK, OneTurnEach, Live, Answering
<1>3. \A r \in Runs : stage[r] # "none" => of'[r] = of[r]
  <2>1. ASSUME NEW p \in Handlers, NEW t, Starts(p, t) PROVE \A r \in Runs : stage[r] # "none" => of'[r] = of[r]
    <3>1. NextRun \in Runs => stage[NextRun] = "none"
      BY NextRunIsNew DEF OneTurnEach
    <3>2. QED
      BY <1>1, <2>1, <3>1 DEF Starts
  <2>2. CASE UserMessage
    BY <1>1, <2>1, <2>2, StartRunFacts DEF UserMessage
  <2>3. CASE FinalStarts
    <3>1. UNCHANGED of \/ Starts("sub", turn)
      BY <2>3, TranscriptStarts
    <3>2. "sub" \in Handlers
      BY DEF Handlers
    <3>3. QED
      BY <2>1, <3>1, <3>2
  <2>4. CASE ~UserMessage /\ ~FinalStarts
    BY <2>4, RowsStay
  <2>5. QED
    BY <2>2, <2>3, <2>4
<1>4. strays \subseteq strays'
  BY HistoryGrows
<1>5. \A r \in Runs : Live(r)' => Live(r) \/ \E p \in Handlers : StartTask(p) /\ at[p].run = r
  BY AnswersMove
<1>6. ASSUME NEW r \in Runs, Answering(r)'
      PROVE  holds'[r] \in Turns /\ (r \in strays' \/ holds'[r] = of'[r])
  <2>1. CASE Answering(r) /\ holds'[r] = holds[r]
    BY <1>2, <1>3, <1>4, <2>1 DEF OwnTurn
  <2>2. CASE stage[r] = "drain" /\ turn # None /\ holds'[r] = turn
    <3>1. Live(r)
      BY <2>2 DEF Live
    <3>2. QED
      BY <1>1, <1>2, <1>3, <1>4, <2>2, <3>1 DEF OwnTurn
  <2>3. QED
    BY <1>6, <2>1, <2>2, AnswersMove
<1>7. ASSUME NEW r \in Runs, Live(r)' PROVE r \in strays' \/ (runTask' = r /\ turn' = of'[r])
  <2>1. CASE Opens
    <3>1. turn = None
      BY <2>1, OpensFromNothing
    <3>2. \A p \in Handlers : StartTask(p) => runTask' = at[p].run /\ UNCHANGED turn
      BY TaskFacts
    <3>3. turn' # None
      BY <2>1, TurnOpens
    <3>4. Live(r)
      BY <1>5, <1>7, <3>1, <3>2, <3>3
    <3>5. QED
      BY <1>2, <1>4, <3>1, <3>4 DEF OwnTurn
  <2>2. ASSUME NEW p \in Handlers, StartTask(p) PROVE r \in strays' \/ (runTask' = r /\ turn' = of'[r])
    <3> DEFINE new == at[p].run
    <3>1. /\ new \in Runs /\ stage' = [stage EXCEPT ![new] = "created"] /\ runTask' = new
          /\ strays' = strays \cup {q \in {runTask} : Live(q)} \cup {q \in {new} : ~Owns(q)}
          /\ Owns(new) => turn = of[new]
          /\ UNCHANGED <<turn, of>>
      BY <2>2, TaskFacts
    <3> HIDE DEF new
    <3>2. CASE r = new
      BY <3>1, <3>2
    <3>3. CASE r # new
      <4>1. Live(r)
        BY <1>1, <1>7, <3>1, <3>3 DEF Live
      <4>2. QED
        BY <1>4, <3>1, <4>1 DEF OwnTurn
    <3>4. QED
      BY <3>2, <3>3
  <2>3. CASE ~Opens /\ \A p \in Handlers : ~StartTask(p)
    <3>1. Live(r)
      BY <1>5, <1>7, <2>3
    <3>2. r \in strays \/ (runTask = r /\ turn = of[r])
      BY <3>1 DEF OwnTurn
    <3>3. CASE Stays
      BY <1>2, <1>3, <1>4, <3>1, <3>2, <3>3 DEF Stays
    <3>4. ASSUME NEW q \in Runs \cup {None}, Closes(q), Closing(q)
          PROVE  r \in strays'
      <4>1. q # r
        <5>1. ASSUME RunEnds(r) PROVE FALSE
          BY <1>1, <1>7, <5>1 DEF RunEnds, Live
        <5>2. QED
          BY <3>4, <5>1, Missing DEF Closing
      <4>2. QED
        BY <3>1, <3>2, <3>4, <4>1 DEF Closes
    <3>5. QED
      BY <2>3, <3>3, <3>4, FieldsMove
  <2>4. QED
    BY <2>1, <2>2, <2>3
<1> HIDE DEF Opens
<1>8. QED
  BY <1>6, <1>7 DEF OwnTurn
-----------------------------------------------------------------------------
(* Types                                                                    *)

\* A type part at a time.
LEMMA TypeStep ==
    ASSUME ChatAssumption, TypeOK, InOrder, RoomToSpeak, OneTurnEach, OpenTurn, OwnTurn, SpeaksForARun, OwnWords,
           [Next]_vars
    PROVE  TypeOK'
<1> DEFINE Opens == UserMessage \/ SpeechStarts \/ SpeechAfterInterrupt
<1>1. /\ state \in States /\ turn \in Turns \cup {None} /\ runTask \in Runs \cup {None}
      /\ committed \in BOOLEAN /\ cutting \in BOOLEAN
      /\ kind \in [Turns -> {"none", "text", "audio"}] /\ barge \in SUBSET Turns
      /\ runOf \in [Turns -> Runs \cup {None}] /\ at \in [Handlers -> Awaits]
      /\ stage \in [Runs -> RunStages] /\ of \in [Runs -> Turns \cup {None}]
      /\ id \in [Runs -> Runs \cup {None}] /\ holds \in [Runs -> Turns \cup {None}]
      /\ row \in [Runs -> Rows] /\ buffer \in SUBSET Turns /\ finals \in Seq(SUBSET Turns)
      /\ misheard \in SUBSET Turns /\ replies \in [Turns -> Nat] /\ faults \in 0 .. MaxFaults /\ MaxFaults \in Nat
      /\ Handlers = {"client", "sub"}
  BY DEF TypeOK, ChatAssumption, Handlers
<1>2. SpeechOK'
  BY SpeechStep
<1>3. at' \in [Handlers -> Awaits]
  BY TurnOpens, TranscriptStarts, HandlersName
<1>4. turn' \in Turns \cup {None} /\ kind' \in [Turns -> {"none", "text", "audio"}] /\ replies' \in [Turns -> Nat]
  <2>1. CASE Opens
    BY <1>1, <2>1, TurnOpens
  <2>2. CASE ~Opens
    <3>1. turn' \in Turns \cup {None} /\ kind' \in [Turns -> {"none", "text", "audio"}]
      BY <1>1, <2>2, NothingOpens
    <3>2. replies' = replies \/ \E t \in {turn, at["client"].turn} \ {None} : replies' = [replies EXCEPT ![t] = @ + 1]
      BY <2>2, NothingOpens
    <3>3. replies' \in [Turns -> Nat]
      <4>1. at["client"].turn \in Turns \cup {None}
        BY <1>1, OpenedFacts
      <4>2. CASE UNCHANGED replies
        BY <1>1, <4>2
      <4>3. ASSUME NEW t \in Turns, replies' = [replies EXCEPT ![t] = @ + 1] PROVE replies' \in [Turns -> Nat]
        <5>1. replies[t] + 1 \in Nat
          BY <1>1
        <5>2. QED
          BY <1>1, <4>3, <5>1
      <4>4. QED
        BY <1>1, <3>2, <4>1, <4>2, <4>3
    <3> HIDE DEF Opens
    <3>4. QED
      BY <3>1, <3>3
  <2>3. QED
    BY <2>1, <2>2
<1>5. stage' \in [Runs -> RunStages]
  <2>1. "created" \in RunStages
    BY DEF RunStages
  <2>2. QED
    BY <1>1, <2>1, StagesMove
<1>6. holds' \in [Runs -> Turns \cup {None}]
  BY AnswersMove
<1>7. of' \in [Runs -> Turns \cup {None}] /\ runOf' \in [Turns -> Runs \cup {None}] /\ row' \in [Runs -> Rows]
  <2>1. ASSUME NEW p, NEW t \in Turns, Starts(p, t)
        PROVE  of' \in [Runs -> Turns \cup {None}] /\ runOf' \in [Turns -> Runs \cup {None}] /\ row' \in [Runs -> Rows]
    <3>1. "reasoning" \in Rows
      BY DEF Rows
    <3>2. CASE UNCHANGED <<row, of, runOf, state>>
      BY <1>1, <3>2
    <3>3. CASE /\ NextRun \in Runs
               /\ row' = [row EXCEPT ![NextRun] = "reasoning"]
               /\ of' = [of EXCEPT ![NextRun] = t]
               /\ runOf' = [runOf EXCEPT ![t] = NextRun]
      BY <1>1, <2>1, <3>1, <3>3
    <3>4. QED
      BY <2>1, <3>2, <3>3 DEF Starts
  <2>2. CASE UserMessage
    BY <1>1, <2>1, <2>2, StartRunFacts DEF UserMessage
  <2>3. CASE FinalStarts
    BY <1>1, <2>1, <2>3, TranscriptStarts
  <2>4. CASE ~UserMessage /\ ~FinalStarts
    BY <1>1, <2>4, RowsStay DEF Rewritten
  <2>5. QED
    BY <2>2, <2>3, <2>4
<1>8. id' \in [Runs -> Runs \cup {None}]
  <2>1. ASSUME NEW r \in Runs, Begin(r) PROVE id' \in [Runs -> Runs \cup {None}]
    <3>1. of[r] \in Turns
      BY <1>1, <2>1 DEF Begin, OneTurnEach
    <3>2. QED
      BY <1>1, <2>1, <3>1 DEF Begin
  <2>2. ASSUME Client PROVE UNCHANGED id
    BY <2>2 DEF Client, UserMessage, StartRun, ListenForBargeIn, NoSpeech, SpeechStarts, SpeechAfterInterrupt, Flush,
       Abort, Commit, Committed, ChunkLost, Interrupt, BargeIn, Execute, InterruptRun, InterruptPublish, InterruptEnds, runs
  <2>3. ASSUME Subscriber PROVE UNCHANGED id
    BY <2>3 DEF Subscriber, Hears, Final, FinalCloses, FinalStarts, StartRun, SpeechEnds, runs
  <2>4. ASSUME NEW p \in Handlers, Starting(p) PROVE UNCHANGED id
    BY <2>4 DEF Starting, StartTask, CreateFailed, GiveUpTurn, runs
  <2>5. ASSUME NEW r \in Runs, Run(r) \/ Voice(r), ~Begin(r) PROVE UNCHANGED id
    BY <2>5 DEF Run, CrewEvent, CommandEnds, CrewAnswers, AnswerDropped, AnswerTold, AnswerKept, CrewFails,
       TornDown, Complete, RecordCompleted,
       RecordFailed, RunEnds, Voice, Ask, Asked, BlockFails, VoiceEnds, VoiceTimesOut, runs
  <2>6. CASE UNCHANGED vars
    BY <1>1, <2>6 DEF vars, runs
  <2>7. QED
    BY <1>1, <2>1, <2>2, <2>3, <2>4, <2>5, <2>6 DEF Next
<1>9. buffer' \in SUBSET Turns /\ finals' \in Seq(SUBSET Turns)
  <2>1. AsrMoves
    BY AsrStep
  <2>2. CASE UNCHANGED asr
    BY <1>1, <2>2 DEF asr
  <2>3. CASE Flush /\ buffer' = buffer \cup {at["client"].turn} /\ UNCHANGED finals
    <3>1. at["client"].turn \in Turns
      BY <1>1, <2>3, OpenedFacts DEF Flush, OpenTurn
    <3>2. QED
      BY <1>1, <2>3, <3>1
  <2>4. CASE buffer' = {} /\ (finals' = finals \/ (buffer # {} /\ finals' = Append(finals, buffer)))
    <3>1. finals \in Seq(SUBSET Turns) /\ buffer \in SUBSET Turns /\ {} \in SUBSET Turns
      BY <1>1
    <3>2. Append(finals, buffer) \in Seq(SUBSET Turns)
      BY <3>1, AppendFacts
    <3>3. QED
      BY <2>4, <3>1, <3>2
  <2>5. CASE finals # <<>> /\ finals' = Tail(finals) /\ UNCHANGED buffer
    BY <1>1, <2>5, TailFacts
  <2>6. QED
    BY <2>1, <2>2, <2>3, <2>4, <2>5 DEF AsrMoves
<1>10. misheard' \in SUBSET Turns
  <2>1. at["sub"].turn \in Turns \cup {None}
    BY <1>1, OpenedFacts
  <2>2. Persist(at["sub"].turn) => misheard' \in SUBSET Turns
    BY <1>1, <2>1 DEF Persist
  <2>3. FinalCloses \/ FinalStarts => misheard' \in SUBSET Turns
    BY <1>1, <2>2 DEF FinalCloses, FinalStarts
  <2>4. CASE Client
    BY <1>1, <2>4 DEF Client, UserMessage, ListenForBargeIn, NoSpeech, SpeechStarts, SpeechAfterInterrupt, Flush,
       Abort, Commit, Committed, ChunkLost, Interrupt, BargeIn, Execute, InterruptRun, InterruptPublish, InterruptEnds, turns
  <2>5. CASE Subscriber
    BY <1>1, <2>3, <2>5 DEF Subscriber, Hears, Final, SpeechEnds, turns
  <2>6. ASSUME NEW p \in Handlers, Starting(p) PROVE UNCHANGED misheard
    BY <2>6 DEF Starting, StartTask, CreateFailed, GiveUpTurn, turns
  <2>7. ASSUME NEW r \in Runs, Run(r) \/ Voice(r) PROVE UNCHANGED misheard
    BY <2>7 DEF Run, Begin, CrewEvent, CommandEnds, CrewAnswers, AnswerDropped, AnswerTold, AnswerKept, CrewFails,
       TornDown, Complete, RecordCompleted,
       RecordFailed, RunEnds, Voice, Ask, Asked, BlockFails, VoiceEnds, VoiceTimesOut, turns
  <2>8. CASE UNCHANGED vars
    BY <1>1, <2>8 DEF vars, turns
  <2>9. QED
    BY <1>1, <2>4, <2>5, <2>6, <2>7, <2>8 DEF Next
<1>11. faults' \in 0 .. MaxFaults
  <2>1. ASSUME faults' = faults \/ (faults < MaxFaults /\ faults' = faults + 1) PROVE faults' \in 0 .. MaxFaults
    BY <1>1, <2>1
  <2>2. CASE Client
    <3>1. InterruptRun => faults' = faults \/ (faults < MaxFaults /\ faults' = faults + 1)
      BY DEF InterruptRun, AsrCommit
    <3>2. Commit => faults' = faults \/ (faults < MaxFaults /\ faults' = faults + 1)
      BY DEF Commit, AsrCommit, Unavailable
    <3>3. QED
      BY <2>1, <2>2, <3>1, <3>2 DEF Client, UserMessage, StartRun, ListenForBargeIn, NoSpeech, SpeechStarts, SpeechAfterInterrupt,
         Flush, Abort, Committed, ChunkLost, Unavailable, Interrupt, BargeIn, Execute, InterruptPublish, InterruptEnds
  <2>3. CASE Subscriber
    <3>1. FinalStarts => faults' = faults \/ (faults < MaxFaults /\ faults' = faults + 1)
      BY DEF FinalStarts, StartRun
    <3>2. QED
      BY <2>1, <2>3, <3>1 DEF Subscriber, Hears, Final, FinalCloses, SpeechEnds
  <2>4. ASSUME NEW p \in Handlers, Starting(p) PROVE UNCHANGED faults
    BY <2>4 DEF Starting, StartTask, CreateFailed, GiveUpTurn
  <2>5. ASSUME NEW r \in Runs, Run(r) \/ Voice(r) PROVE faults' = faults \/ (faults < MaxFaults /\ faults' = faults + 1)
    BY <2>5 DEF Run, Begin, CrewEvent, CommandEnds, CrewAnswers, AnswerDropped, AnswerTold, AnswerKept, CrewFails,
       TornDown, Complete, RecordCompleted,
       RecordFailed, RunEnds, Voice, Ask, Asked, BlockFails, VoiceEnds, VoiceTimesOut
  <2>6. CASE UNCHANGED vars
    BY <1>1, <2>6 DEF vars
  <2>7. QED
    BY <2>1, <2>2, <2>3, <2>4, <2>5, <2>6 DEF Next
<1>12. barge' \in SUBSET Turns /\ committed' \in BOOLEAN /\ runTask' \in Runs \cup {None}
  <2>1. CASE Opens
    <3>1. barge' \in SUBSET Turns /\ UNCHANGED runTask
      BY <2>1, TurnOpens
    <3>2. committed' \in {committed, FALSE}
      BY <2>1, TurnOpens
    <3>3. QED
      BY <1>1, <3>1, <3>2
  <2>2. CASE Client /\ ~Opens
    BY <1>1, <2>2 DEF Client, ListenForBargeIn, NoSpeech, Flush, Abort, Commit, Committed, ChunkLost, Interrupt, BargeIn,
       Execute, InterruptRun, InterruptPublish, InterruptEnds, FinalizeToReady, Finalize, turns, fields
  <2>3. CASE Subscriber
    BY <1>1, <2>3 DEF Subscriber, Hears, Final, FinalCloses, FinalStarts, SpeechEnds, FinalizeToReady, Finalize, turns, fields
  <2>4. ASSUME NEW p \in Handlers, Starting(p)
        PROVE  barge' \in SUBSET Turns /\ committed' \in BOOLEAN /\ runTask' \in Runs \cup {None}
    <3>1. StartTask(p) => runTask' \in Runs /\ UNCHANGED <<barge, committed>>
      BY TaskFacts DEF StartTask, turns
    <3>2. QED
      BY <1>1, <2>4, <3>1 DEF Starting, CreateFailed, GiveUpTurn, FinalizeToReady, Finalize, turns
  <2>5. ASSUME NEW r \in Runs, Run(r) \/ Voice(r)
        PROVE  barge' \in SUBSET Turns /\ committed' \in BOOLEAN /\ runTask' \in Runs \cup {None}
    BY <1>1, <2>5 DEF Run, Begin, CrewEvent, CommandEnds, CrewAnswers, AnswerDropped, AnswerTold, AnswerKept,
       CrewFails, TornDown, Complete, RecordCompleted,
       RecordFailed, RunEnds, Voice, Ask, Asked, BlockFails, VoiceEnds, VoiceTimesOut, FinalizeToReady, Finalize, turns, fields
  <2>6. CASE UNCHANGED vars
    BY <1>1, <2>6 DEF vars, turns, fields
  <2>7. QED
    BY <2>1, <2>2, <2>3, <2>4, <2>5, <2>6 DEF Next
<1>13. cutting' \in BOOLEAN
  <2>1. CASE Client
    BY <1>1, <2>1 DEF Client, UserMessage, StartRun, ListenForBargeIn, NoSpeech, SpeechStarts, SpeechAfterInterrupt, Flush,
       Abort, Commit, Committed, ChunkLost, Interrupt, BargeIn, Execute, InterruptRun, InterruptPublish, InterruptEnds
  <2>2. CASE Subscriber
    BY <1>1, <2>2 DEF Subscriber, Hears, Final, FinalCloses, FinalStarts, StartRun, SpeechEnds
  <2>3. ASSUME NEW p \in Handlers, Starting(p) PROVE UNCHANGED cutting
    BY <2>3 DEF Starting, StartTask, CreateFailed, GiveUpTurn
  <2>4. ASSUME NEW r \in Runs, Run(r) \/ Voice(r) PROVE UNCHANGED cutting
    BY <2>4 DEF Run, Begin, CrewEvent, CommandEnds, CrewAnswers, AnswerDropped, AnswerTold, AnswerKept, CrewFails,
       TornDown, Complete, RecordCompleted,
       RecordFailed, RunEnds, Voice, Ask, Asked, BlockFails, VoiceEnds, VoiceTimesOut
  <2>5. QED
    BY <1>1, <2>1, <2>2, <2>3, <2>4 DEF Next, vars
<1>14. state' \in States
  <2>1. {"ready", "buffering", "busy", "completed", "interrupted", "failed", "closed"} = States
    BY DEF States
  <2>2. CASE Client
    BY <1>1, <2>1, <2>2 DEF Client, UserMessage, StartRun, ListenForBargeIn, NoSpeech, SpeechStarts, SpeechAfterInterrupt,
       BeginAudioTurn, Flush, Abort, Commit, Committed, ChunkLost, Interrupt, BargeIn, Execute, InterruptRun, InterruptPublish,
       InterruptEnds, FinalizeToReady, fields
  <2>3. CASE Subscriber
    BY <1>1, <2>1, <2>3 DEF Subscriber, Hears, Final, FinalCloses, FinalStarts, StartRun, SpeechEnds, FinalizeToReady, fields
  <2>4. CASE \E p \in Handlers : Starting(p)
    BY <1>1, <2>1, <2>4 DEF Starting, StartTask, CreateFailed, GiveUpTurn, FinalizeToReady
  <2>5. CASE \E r \in Runs : Run(r) \/ Voice(r)
    BY <1>1, <2>1, <2>5 DEF Run, Begin, CrewEvent, CommandEnds, CrewAnswers, AnswerDropped, AnswerTold,
       AnswerKept, CrewFails, TornDown, Complete, RecordCompleted,
       RecordFailed, RunEnds, Voice, Ask, Asked, BlockFails, VoiceEnds, VoiceTimesOut, FinalizeToReady, fields
  <2>6. QED
    BY <1>1, <2>2, <2>3, <2>4, <2>5 DEF Next, vars, fields
<1>15. QED
  BY <1>2, <1>3, <1>4, <1>5, <1>6, <1>7, <1>8, <1>9, <1>10, <1>11, <1>12, <1>13, <1>14 DEF TypeOK, SpeechOK
-----------------------------------------------------------------------------
(* One turn after the other                                                 *)

\* Nothing is heard, written or run.
Silence == finals = <<>> /\ buffer = {} /\ ~Pc("client", "flush") /\ NoRun

LEMMA SilenceIsOrderly ==
    ASSUME Silence'
    PROVE  Orderly'
<1>1. \A p \in Handlers : Pc(p, "starting")' => Opening(p)'
  BY DEF Pc, Opening
<1>2. "client" \in Handlers
  BY DEF Handlers
<1>3. finals' = <<>> /\ buffer' = {} /\ ~Pc("client", "flush")' /\ (\A r \in Runs : ~Live(r)') /\ (\A p \in Handlers : ~Opening(p)')
  BY DEF Silence, NoRun
<1>4. QED
  BY <1>1, <1>2, <1>3 DEF Orderly

\* Without an open turn nothing is under way.
LEMMA NoTurnIsSilent ==
    ASSUME ChatAssumption, TypeOK, OneTurnEach, Orderly, cut = {}, turn = None
    PROVE  Silence
<1>1. \A r \in Runs : Live(r) => of[r] # None
  BY DEF Live, OneTurnEach, TypeOK
<1>2. QED
  BY <1>1 DEF Orderly, Silence, NoRun

\* Starting a run of the open turn.
LEMMA StartsOrderly ==
    ASSUME ChatAssumption, TypeOK, InOrder, OneTurnEach, Silence, NEW p \in Handlers, NEW t \in Turns, Starts(p, t),
           UNCHANGED <<stage, buffer>>, turn' = t, finals' = <<>>
    PROVE  Orderly'
<1>1. Handlers = {"client", "sub"} /\ \A r \in Runs : ~Live(r)' 
  BY DEF Handlers, Silence, NoRun, Live
<1>2. \A q \in Handlers : q # p => at'[q] = at[q] /\ ~Opening(q) /\ ~Opening(q)' /\ ~Pc(q, "starting")'
  BY DEF Starts, Moves, Silence, NoRun, Opening, Pc
<1>3. turn' # None
  BY Missing
<1>4. at'[p].pc \in {"starting", "create_failed"}
  BY DEF Starts, Moves
<1>5. ~Pc("client", "flush")'
  BY <1>1, <1>2, <1>4 DEF Silence, Pc
<1>6. \A q \in Handlers : Pc(q, "starting")' => turn' = of'[at'[q].run]
  <2>1. CASE at'[p].pc = "create_failed"
    BY <1>2, <2>1 DEF Pc
  <2>2. CASE at'[p].pc = "starting"
    <3>1. NextRun \in Runs /\ at'[p].run = NextRun /\ of' = [of EXCEPT ![NextRun] = t]
      BY <2>2 DEF Starts, Moves
    <3>2. of'[NextRun] = t
      BY <3>1 DEF TypeOK
    <3>3. QED
      BY <1>2, <3>1, <3>2
  <2>3. QED
    BY <1>4, <2>1, <2>2
<1>7. ~(Opening("client")' /\ Opening("sub")')
  BY <1>1, <1>2
<1>8. finals' = <<>> /\ buffer' = {}
  BY DEF Silence
<1>9. QED
  BY <1>1, <1>3, <1>5, <1>6, <1>7, <1>8 DEF Orderly

\* A step that opens, asks and starts nothing.
Quietly == /\ turn' = turn /\ (committed => committed')
           /\ Pc("client", "flush")' => Pc("client", "flush")
           /\ \A r \in Runs : Live(r)' => Live(r) /\ of'[r] = of[r]
           /\ \A p \in Handlers : Opening(p)' => Opening(p)
           /\ \A p \in Handlers : Pc(p, "starting")' => at'[p] = at[p] /\ of'[at[p].run] = of[at[p].run]

LEMMA QuietlyOrderly ==
    ASSUME Orderly, cut = {}, UNCHANGED asr, Quietly
    PROVE  Orderly'
<1>1. finals' = finals /\ buffer' = buffer
  BY DEF asr
<1>2. NoRun => NoRun'
  BY DEF NoRun, Quietly
<1>3. \A p \in Handlers : Pc(p, "starting")' => Pc(p, "starting")
  BY DEF Quietly, Pc
<1>4. "client" \in Handlers /\ "sub" \in Handlers
  BY DEF Handlers
<1>5. /\ finals # <<>> \/ buffer # {} \/ Pc("client", "flush") => turn # None /\ NoRun
      /\ finals # <<>> => Len(finals) = 1 /\ buffer = {} /\ committed /\ ~Pc("client", "flush")
      /\ \A r \in Runs : Live(r) => turn = of[r]
      /\ \A p \in Handlers : Pc(p, "starting") => turn = of[at[p].run]
      /\ \A p \in Handlers : Opening(p) => turn # None
      /\ \A r, q \in Runs : Live(r) /\ Live(q) => r = q
      /\ \A p \in Handlers : Opening(p) => \A r \in Runs : ~Live(r)
      /\ ~(Opening("client") /\ Opening("sub"))
  BY DEF Orderly
<1>6. /\ finals' # <<>> \/ buffer' # {} \/ Pc("client", "flush")' => turn' # None /\ NoRun'
      /\ finals' # <<>> => Len(finals') = 1 /\ buffer' = {} /\ committed' /\ ~Pc("client", "flush")'
  BY <1>1, <1>2, <1>5 DEF Quietly
<1>7. /\ \A r \in Runs : Live(r)' => turn' = of'[r]
      /\ \A p \in Handlers : Pc(p, "starting")' => turn' = of'[at'[p].run]
      /\ \A p \in Handlers : Opening(p)' => turn' # None
      /\ \A r, q \in Runs : Live(r)' /\ Live(q)' => r = q
      /\ \A p \in Handlers : Opening(p)' => \A r \in Runs : ~Live(r)'
      /\ ~(Opening("client")' /\ Opening("sub")')
  BY <1>3, <1>4, <1>5 DEF Quietly
<1>8. QED
  BY <1>6, <1>7 DEF Orderly

\* As long as nothing is cut short, turns do not overlap.
LEMMA OrderlyStep ==
    ASSUME ChatAssumption, TypeOK, InOrder, RoomToSpeak, OneTurnEach, OpenTurn, OwnTurn, Orderly, OwnWords, [Next]_vars
    PROVE  Orderly'
<1> DEFINE Opens == UserMessage \/ SpeechStarts \/ SpeechAfterInterrupt
<1> SUFFICES ASSUME cut' = {} PROVE Orderly'
  BY DEF Orderly
<1>1. cut = {} /\ Handlers = {"client", "sub"} /\ turn \in Turns \cup {None} /\ finals \in Seq(SUBSET Turns)
  BY HistoryGrows DEF Handlers, TypeOK
<1>2. CASE Opens
  <2>1. Silence
    BY <1>1, <1>2, OpensFromNothing, NoTurnIsSilent
  <2>2. NextTurn \in Turns /\ turn' = NextTurn /\ UNCHANGED <<stage, finals, buffer>> /\ at'["sub"] = at["sub"]
    BY <1>2, TurnOpens DEF asr
  <2>3. CASE UserMessage
    <3>1. Starts("client", NextTurn)
      BY <1>1, <2>3, StartRunFacts DEF UserMessage
    <3>2. finals' = <<>>
      BY <2>1, <2>2 DEF Silence
    <3>3. QED
      BY <1>1, <2>1, <2>2, <3>1, <3>2, StartsOrderly
  <2>4. CASE ~UserMessage
    <3>1. Moves("client", "flush", NextTurn)
      BY <1>2, <2>4, TurnOpens
    <3>2. finals' = <<>> /\ buffer' = {} /\ turn' # None /\ \A r \in Runs : ~Live(r)'
      BY <2>1, <2>2, Missing DEF Silence, NoRun, Live
    <3>3. \A p \in Handlers : ~Opening(p)' /\ ~Pc(p, "starting")'
      BY <1>1, <2>1, <2>2, <3>1 DEF Silence, NoRun, Opening, Pc, Moves
    <3>4. QED
      BY <1>1, <3>2, <3>3 DEF Orderly, NoRun
  <2>5. QED
    BY <2>3, <2>4
<1>3. CASE FinalStarts
  <2>1. finals # <<>>
    BY <1>3 DEF FinalStarts, OwnWords, Pc
  <2>2. turn \in Turns /\ NoRun /\ Len(finals) = 1 /\ buffer = {} /\ ~Pc("client", "flush")
    BY <1>1, <2>1 DEF Orderly
  <2>3. finals' = <<>>
    <3>1. finals' = Tail(finals)
      BY <1>3, TranscriptStarts
    <3>2. Tail(finals) \in Seq(SUBSET Turns) /\ Len(Tail(finals)) = 0
      BY <1>1, <2>1, <2>2, TailFacts
    <3>3. QED
      BY <3>1, <3>2
  <2>4. Starts("sub", turn) /\ UNCHANGED <<stage, turn, buffer>>
    BY <1>3, <2>2, TranscriptStarts, Missing
  <2>5. CASE ~Pc("sub", "starting")' /\ UNCHANGED <<row, of, runOf, state>>
    <3>1. Moves("sub", "create_failed", None)
      BY <2>4, <2>5 DEF Starts, Moves, Pc
    <3>2. at'["client"] = at["client"] /\ ~Opening("client")' /\ ~Pc("client", "flush")' /\ turn' # None
      BY <1>1, <2>2, <2>4, <3>1, Missing DEF Moves, NoRun, Opening, Pc
    <3>3. \A r \in Runs : ~Live(r)'
      BY <2>2, <2>4 DEF NoRun, Live
    <3>4. \A p \in Handlers : ~Pc(p, "starting")'
      BY <1>1, <2>5, <3>2 DEF Opening, Pc
    <3>5. finals' = <<>> /\ buffer' = {}
      BY <2>2, <2>3, <2>4
    <3>6. QED
      BY <3>2, <3>3, <3>4, <3>5 DEF Orderly
  <2>6. CASE ~(~Pc("sub", "starting")' /\ UNCHANGED <<row, of, runOf, state>>)
    <3>1. /\ NextRun \in Runs /\ of' = [of EXCEPT ![NextRun] = turn]
          /\ Moves("sub", "starting", None) /\ at'["sub"].run = NextRun
      BY <2>4, <2>6 DEF Starts, Moves, Pc
    <3>2. at'["client"] = at["client"] /\ ~Opening("client")' /\ ~Pc("client", "flush")' /\ turn' # None
      BY <1>1, <2>2, <2>4, <3>1, Missing DEF Moves, NoRun, Opening, Pc
    <3>3. \A r \in Runs : ~Live(r)'
      BY <2>2, <2>4 DEF NoRun, Live
    <3>4. of'[NextRun] = turn
      BY <3>1 DEF TypeOK
    <3>5. \A p \in Handlers : Pc(p, "starting")' => turn' = of'[at'[p].run]
      BY <1>1, <2>4, <3>1, <3>2, <3>4 DEF Opening, Pc
    <3>6. finals' = <<>> /\ buffer' = {}
      BY <2>2, <2>3, <2>4
    <3>7. QED
      BY <3>2, <3>3, <3>5, <3>6 DEF Orderly
  <2>7. QED
    BY <2>5, <2>6
<1>4. ASSUME NEW p \in Handlers, StartTask(p) PROVE Orderly'
  <2> DEFINE r == at[p].run
  <2>1. /\ r \in Runs /\ stage' = [stage EXCEPT ![r] = "created"] /\ UNCHANGED <<turn, of>>
    BY <1>4, TaskFacts
  <2>2. turn = of[r] /\ turn # None /\ (\A q \in Runs : ~Live(q)) /\ Pc(p, "starting")
    BY <1>1, <1>4 DEF StartTask, Orderly, Opening, Pc
  <2>3. finals = <<>> /\ buffer = {} /\ ~Pc("client", "flush")
    BY <1>1, <2>2 DEF Orderly, NoRun, Opening, Pc
  <2>4. Moves(p, "idle", None) /\ finals' = finals /\ buffer' = buffer
    BY <1>4, StartingMoves DEF StartTask, asr
  <2> HIDE DEF r
  <2>5. \A q \in Handlers : ~Opening(q)' /\ ~Pc(q, "starting")'
    BY <1>1, <2>2, <2>4 DEF Orderly, Moves, Opening, Pc
  <2>6. \A q \in Runs : Live(q)' => q = r
    BY <2>1, <2>2 DEF Live, TypeOK
  <2>7. ~Pc("client", "flush")'
    BY <1>1, <2>3, <2>4 DEF Moves, Pc
  <2>8. QED
    BY <1>1, <2>1, <2>2, <2>3, <2>4, <2>5, <2>6, <2>7 DEF Orderly
<1>5. CASE ~Opens /\ ~FinalStarts /\ \A p \in Handlers : ~StartTask(p)
  <2>1. \A p \in Handlers : Names(p)
    BY <1>5, HandlersName
  <2>2. ClientGoes
    BY <1>5, ClientStep
  <2>3. (\A r \in Runs : Live(r)' => Live(r)) /\ UNCHANGED of
    BY <1>5, AnswersMove, RowsStay DEF UserMessage
  <2>4. Pc("client", "flush")' => Pc("client", "flush")
    BY <2>2 DEF ClientGoes, Pc, Interrupting
  <2>5. AsrMoves
    BY AsrStep
  <2>6. CASE Stays
    <3>1. committed => committed'
      BY <2>6 DEF Stays
    <3>2. Quietly
      BY <2>1, <2>3, <2>4, <2>6, <3>1 DEF Quietly, Stays, Names, Pc
    <3>3. CASE UNCHANGED asr
      BY <1>1, <3>2, <3>3, QuietlyOrderly
    <3>4. CASE Flush /\ buffer' = buffer \cup {at["client"].turn} /\ UNCHANGED finals /\ Moves("client", "idle", None)
      <4>1. finals = <<>> /\ turn # None /\ NoRun
        BY <1>1, <3>4 DEF Orderly, Flush
      <4>2. NoRun' /\ turn' # None /\ finals' = <<>>
        BY <2>1, <2>3, <2>6, <3>4, <4>1 DEF Names, NoRun, Stays
      <4>3. \A p \in Handlers : ~Pc(p, "starting")'
        BY <4>2 DEF NoRun, Opening, Pc
      <4>4. QED
        BY <1>1, <4>2, <4>3 DEF Orderly, NoRun
    <3>5. CASE /\ Commit \/ InterruptRun
               /\ buffer' = {} /\ (finals' = finals \/ (buffer # {} /\ finals' = Append(finals, buffer)))
      <4>1. CASE buffer = {}
        <5>1. UNCHANGED asr
          BY <3>5, <4>1 DEF asr
        <5>2. QED
          BY <3>3, <5>1
      <4>2. CASE buffer # {}
        <5>1. finals = <<>> /\ turn # None /\ NoRun
          BY <1>1, <4>2 DEF Orderly
        <5>2. NoRun' /\ turn' # None
          BY <2>1, <2>3, <2>6, <5>1 DEF Names, NoRun, Stays
        <5>3. \A p \in Handlers : ~Pc(p, "starting")'
          BY <5>2 DEF NoRun, Opening, Pc
        <5>4. finals' # <<>> => Len(finals') = 1
          BY <3>5, <5>1
        <5>5. Commit
          <6>1. ASSUME InterruptRun PROVE FALSE
            <7>1. at["client"].pc = "cancel" /\ UNCHANGED turn
              BY <6>1 DEF InterruptRun, Pc, fields
            <7>2. at["client"].turn = None
              BY <1>1, <7>1 DEF OpenTurn, Interrupting
            <7>3. QED
              BY <5>1, <7>1, <7>2 DEF OpenTurn, Interrupting
          <6>2. QED
            BY <3>5, <6>1
        <5>6. committed' /\ ~Pc("client", "flush")'
          BY <2>4, <5>5 DEF Commit, Pc
        <5>7. QED
          BY <1>1, <3>5, <5>2, <5>3, <5>4, <5>6 DEF Orderly, NoRun
      <4>3. QED
        BY <4>1, <4>2
    <3>6. CASE finals # <<>> /\ (FinalCloses \/ (at' = at /\ FinalizeToReady(None)))
      <4>1. turn # None /\ turn' = None
        BY <1>1, <3>6 DEF Orderly, FinalCloses, FinalizeToReady, Finalize
      <4>2. QED
        BY <2>6, <4>1 DEF Stays
    <3>7. QED
      BY <1>5, <2>5, <3>3, <3>4, <3>5, <3>6 DEF AsrMoves
  <2>7. ASSUME NEW r \in Runs \cup {None}, Closes(r), Closing(r) PROVE Orderly'
    <3>1. CASE turn = None
      <4>1. Silence
        BY <1>1, <3>1, NoTurnIsSilent
      <4>2. NoRun'
        BY <2>1, <2>3, <4>1 DEF Silence, NoRun, Names
      <4>3. finals' = <<>> /\ buffer' = {}
        <5>1. ~Flush
          BY <4>1 DEF Flush, Silence
        <5>2. QED
          BY <2>5, <4>1, <5>1, <1>5 DEF AsrMoves, Silence, asr, FinalCloses
      <4>4. QED
        BY <2>4, <4>1, <4>2, <4>3, SilenceIsOrderly DEF Silence
    <3>2. CASE turn # None
      <4>1. ~Abort
        BY <1>1, <3>2 DEF Abort
      <4>2. ~InterruptEnds
        BY <1>1, <3>2 DEF InterruptEnds, OpenTurn, Interrupting, Pc
      <4>3. ASSUME NEW p \in Handlers, GiveUpTurn(p), UNCHANGED asr PROVE Silence'
        <5>1. Pc(p, "failing") /\ Opening(p) /\ Moves(p, "idle", None)
          BY <4>3, StartingMoves DEF GiveUpTurn, Opening, Pc
        <5>2. finals = <<>> /\ buffer = {} /\ ~Pc("client", "flush") /\ \A q \in Runs : ~Live(q)
          BY <1>1, <5>1 DEF Orderly, NoRun
        <5>3. \A q \in Handlers : ~Opening(q)'
          BY <1>1, <5>1 DEF Orderly, Moves, Opening, Pc
        <5>4. QED
          BY <2>3, <2>4, <4>3, <5>2, <5>3 DEF Silence, NoRun, asr
      <4>4. ASSUME r \in Runs, RunEnds(r), UNCHANGED asr PROVE Silence'
        <5>1. Live(r) /\ stage' = [stage EXCEPT ![r] = "done"]
          BY <4>4 DEF RunEnds, Live
        <5>2. finals = <<>> /\ buffer = {} /\ ~Pc("client", "flush") /\ \A p \in Handlers : ~Opening(p)
          BY <1>1, <4>4, <5>1 DEF Orderly, NoRun
        <5>3. \A q \in Runs : ~Live(q)'
          BY <1>1, <2>3, <4>4, <5>1 DEF Orderly, Live, TypeOK
        <5>4. QED
          BY <2>1, <2>4, <4>4, <5>2, <5>3 DEF Silence, NoRun, Names, asr
      <4>5. ASSUME finals # <<>>, finals' = Tail(finals), UNCHANGED buffer PROVE Silence'
        <5>1. NoRun /\ Len(finals) = 1 /\ buffer = {} /\ ~Pc("client", "flush")
          BY <1>1, <4>5 DEF Orderly
        <5>2. Tail(finals) \in Seq(SUBSET Turns) /\ Len(Tail(finals)) = 0
          BY <1>1, <4>5, <5>1, TailFacts
        <5>3. finals' = <<>> /\ NoRun'
          BY <2>1, <2>3, <4>5, <5>1, <5>2 DEF NoRun, Names
        <5>4. QED
          BY <2>4, <4>5, <5>1, <5>3 DEF Silence
      <4>6. Silence'
        <5>1. CASE r \in Runs
          <6>1. RunEnds(r)
            BY <2>7, <5>1, Missing DEF Closing
          <6>2. UNCHANGED asr
            BY <6>1 DEF RunEnds
          <6>3. QED
            BY <4>4, <5>1, <6>1, <6>2
        <5>2. CASE r = None
          <6>1. CASE FinalCloses
            <7>1. finals # <<>> /\ finals' = Tail(finals) /\ UNCHANGED buffer
              BY <6>1 DEF FinalCloses, OwnWords, Pc
            <7>2. QED
              BY <4>5, <7>1
          <6>2. CASE \E p \in Handlers : GiveUpTurn(p)
            BY <4>3, <6>2 DEF GiveUpTurn
          <6>3. CASE at' = at /\ Pc("sub", "idle") /\ finals # <<>> /\ finals' = Tail(finals)
            <7>1. CASE UNCHANGED buffer
              BY <4>5, <6>3, <7>1
            <7>2. CASE ~UNCHANGED buffer
              <8>1. Flush \/ Commit \/ InterruptRun
                BY <2>5, <7>2 DEF AsrMoves, asr
              <8>2. QED
                BY <2>7, <3>2, <8>1 DEF Flush, Commit, InterruptRun, fields, Closes
            <7>3. QED
              BY <7>1, <7>2
          <6>4. QED
            BY <2>7, <4>1, <4>2, <5>2, <6>1, <6>2, <6>3 DEF Closing
        <5>3. QED
          BY <5>1, <5>2
      <4>7. QED
        BY <4>6, SilenceIsOrderly
    <3>3. QED
      BY <3>1, <3>2
  <2>8. QED
    BY <1>5, <2>6, <2>7, FieldsMove
<1> HIDE DEF Opens
<1>6. QED
  BY <1>2, <1>3, <1>4, <1>5
-----------------------------------------------------------------------------
(* Whose words they are                                                     *)

\* What the subscriber takes up.
Hearing == {"control", "text", "empty"}

LEMMA SubStep ==
    ASSUME ChatAssumption, TypeOK, InOrder, RoomToSpeak, [Next]_vars
    PROVE  \/ at'["sub"] = at["sub"]
           \/ at'["sub"].pc \notin Hearing
           \/ at'["sub"].turn = turn /\ finals # <<>> /\ UNCHANGED <<turn, finals, buffer>>
<1>1. Handlers = {"client", "sub"}
  BY DEF Handlers
<1>2. CASE UserMessage \/ SpeechStarts \/ SpeechAfterInterrupt
  BY <1>2, TurnOpens
<1>3. CASE Client /\ ~(UserMessage \/ SpeechStarts \/ SpeechAfterInterrupt)
  BY <1>1, <1>3, ClientMoves, ConnectionEnds DEF Client, Moves, Hearing
<1>4. CASE FinalStarts
  BY <1>1, <1>4, TranscriptStarts DEF Starts, Moves, Hearing
<1>5. CASE FinalCloses
  BY <1>5, SubMoves DEF Moves, Hearing
<1>6. ASSUME NEW text \in {"text", "control", "noise"}, Final(text)
      PROVE  \/ at'["sub"] = at["sub"]
             \/ at'["sub"].turn = turn /\ finals # <<>> /\ UNCHANGED <<turn, finals, buffer>>
  <2>1. finals # <<>> /\ UNCHANGED buffer
    BY <1>6 DEF Final
  <2>2. QED
    BY <1>6, <2>1, SubMoves DEF Moves, fields
<1>7. ASSUME NEW p \in Handlers, Starting(p) PROVE at'["sub"] = at["sub"] \/ at'["sub"].pc \notin Hearing
  <2>1. \E s \in {"idle", "failing"} : \E t : Moves(p, s, t)
    BY <1>7, StartingMoves DEF Starting
  <2>2. QED
    BY <1>1, <2>1 DEF Moves, Hearing
<1>8. ASSUME NEW r \in Runs, SpeechEnds(r) \/ Run(r) \/ Voice(r) PROVE UNCHANGED at
  BY <1>8 DEF SpeechEnds, Run, Voice, Begin, CrewEvent, CommandEnds, CrewAnswers, AnswerDropped, AnswerTold,
     AnswerKept, CrewFails, TornDown, Complete,
     RecordCompleted, RecordFailed, RunEnds, Ask, Asked, BlockFails, VoiceEnds, VoiceTimesOut
<1>9. CASE UNCHANGED vars
  BY <1>9 DEF vars
<1>10. QED
  BY <1>2, <1>3, <1>4, <1>5, <1>6, <1>7, <1>8, <1>9 DEF Next, Subscriber, Hears

\* A turn that is opened has no earlier one cut short only if none was.
LEMMA FirstCutFacts ==
    ASSUME ChatAssumption, InOrder, [Next]_vars
    PROVE  /\ \A t : First(t, cut') => First(t, cut)
           /\ NextTurn \in Turns /\ First(NextTurn, cut) => cut = {}
<1>1. \A t : First(t, cut') => First(t, cut)
  BY HistoryGrows DEF First
<1>2. ASSUME NextTurn \in Turns, First(NextTurn, cut), cut # {} PROVE FALSE
  <2>1. PICK u \in cut : u >= NextTurn
    BY <1>2 DEF First
  <2>2. u \in {t \in Turns : kind[t] # "none"}
    BY <2>1 DEF InOrder
  <2>3. u \in 1 .. (NextTurn - 1) /\ NextTurn \in Nat
    BY <2>2, NextTurnIsNew
  <2>4. QED
    BY <2>1, <2>3
<1>3. QED
  BY <1>1, <1>2

\* The words of an open turn, and those the subscriber has taken up.
LEMMA OwnWordsStep ==
    ASSUME ChatAssumption, TypeOK, InOrder, RoomToSpeak, OneTurnEach, OpenTurn, Orderly, OwnWords, [Next]_vars
    PROVE  OwnWords'
<1> DEFINE Opens == UserMessage \/ SpeechStarts \/ SpeechAfterInterrupt
<1>1. finals \in Seq(SUBSET Turns) /\ buffer \in SUBSET Turns /\ turn \in Turns \cup {None}
  BY DEF TypeOK
<1>2. AsrMoves
  BY AsrStep
<1>3. ASSUME turn' # None, First(turn', cut')
      PROVE  (\A i \in DOMAIN finals' : finals'[i] = {turn'}) /\ buffer' \subseteq {turn'}
  <2>1. First(turn', cut)
    BY <1>3, FirstCutFacts
  <2>2. CASE Opens
    <3>1. NextTurn \in Turns /\ turn' = NextTurn /\ UNCHANGED <<finals, buffer>>
      BY <2>2, TurnOpens DEF asr
    <3>2. cut = {} /\ turn = None
      BY <2>1, <2>2, <3>1, FirstCutFacts, OpensFromNothing
    <3>3. finals = <<>> /\ buffer = {}
      BY <3>2, NoTurnIsSilent DEF Silence
    <3>4. finals' = <<>> /\ buffer' = {}
      BY <3>1, <3>3
    <3>5. QED
      BY <3>4
  <2>3. CASE ~Opens
    <3>1. turn' = turn
      BY <1>3, <2>3, NothingOpens
    <3>2. (\A i \in DOMAIN finals : finals[i] = {turn}) /\ buffer \subseteq {turn}
      BY <1>3, <2>1, <3>1 DEF OwnWords
    <3>3. CASE UNCHANGED asr
      BY <3>1, <3>2, <3>3 DEF asr
    <3>4. CASE Flush /\ buffer' = buffer \cup {at["client"].turn} /\ UNCHANGED finals
      <4>1. at["client"].turn = turn
        BY <1>3, <3>1, <3>4 DEF Flush, OpenTurn, Pc
      <4>2. QED
        BY <3>1, <3>2, <3>4, <4>1
    <3>5. CASE buffer' = {} /\ (finals' = finals \/ (buffer # {} /\ finals' = Append(finals, buffer)))
      <4>1. CASE finals' = finals
        BY <3>1, <3>2, <3>5, <4>1
      <4>2. CASE buffer # {} /\ finals' = Append(finals, buffer)
        <5>1. buffer = {turn}
          BY <3>2, <4>2
        <5>2. \A i \in DOMAIN Append(finals, buffer) :
                (i \in DOMAIN finals /\ Append(finals, buffer)[i] = finals[i]) \/ Append(finals, buffer)[i] = buffer
          BY <1>1, AppendFacts
        <5>3. QED
          BY <3>1, <3>2, <3>5, <4>2, <5>1, <5>2
      <4>3. QED
        BY <3>5, <4>1, <4>2
    <3>6. CASE finals # <<>> /\ finals' = Tail(finals) /\ UNCHANGED buffer
      <4>1. \A i \in DOMAIN Tail(finals) : i + 1 \in DOMAIN finals /\ Tail(finals)[i] = finals[i + 1]
        BY <1>1, <3>6, TailFacts
      <4>2. QED
        BY <3>1, <3>2, <3>6, <4>1
    <3>7. QED
      BY <1>2, <3>3, <3>4, <3>5, <3>6 DEF AsrMoves
  <2>4. QED
    BY <2>2, <2>3
<1>4. CASE at'["sub"].turn = turn /\ finals # <<>> /\ UNCHANGED <<turn, finals, buffer>>
  <2>1. turn # None /\ First(turn, cut') => Head(finals) = {turn}
    <3>1. Head(finals) = finals[1] /\ 1 \in DOMAIN finals
      BY <1>1, <1>4, TailFacts
    <3>2. QED
      BY <3>1, FirstCutFacts DEF OwnWords
  <2>2. finals' # <<>>
    BY <1>4
  <2>3. at'["sub"].turn # None /\ First(at'["sub"].turn, cut') => Head(finals') = {at'["sub"].turn}
    BY <1>4, <2>1
  <2> HIDE DEF Opens
  <2>4. QED
    BY <1>3, <2>2, <2>3 DEF OwnWords
<1>5. CASE at'["sub"].pc \notin Hearing
  <2> HIDE DEF Opens
  <2>1. QED
    BY <1>3, <1>5 DEF OwnWords, Hearing
<1>6. CASE at'["sub"] = at["sub"] /\ at["sub"].pc \in Hearing
  <2>1. finals # <<>>
    BY <1>6 DEF OwnWords, Hearing
  <2>2. finals' # <<>> /\ Head(finals') = Head(finals)
    <3>1. CASE finals' = finals
      BY <2>1, <3>1
    <3>2. CASE finals' = Append(finals, buffer)
      <4>1. Append(finals, buffer) # <<>> /\ Head(Append(finals, buffer)) = Head(finals)
        BY <1>1, <2>1
      <4>2. QED
        BY <3>2, <4>1
    <3>3. CASE FinalCloses \/ FinalStarts \/ Pc("sub", "idle")
      <4>1. CASE FinalCloses
        BY <1>6, <4>1, SubMoves DEF Moves, Hearing
      <4>2. CASE FinalStarts
        BY <1>6, <4>2, TranscriptStarts DEF Starts, Moves, Hearing
      <4>3. CASE Pc("sub", "idle")
        BY <1>6, <4>3 DEF Pc, Hearing
      <4>4. QED
        BY <3>3, <4>1, <4>2, <4>3
    <3>4. QED
      BY <1>2, <3>1, <3>2, <3>3 DEF AsrMoves, asr
  <2>3. First(at["sub"].turn, cut') => First(at["sub"].turn, cut)
    BY FirstCutFacts
  <2>4. at["sub"].pc \in {"control", "text"} /\ at["sub"].turn # None /\ First(at["sub"].turn, cut)
          => Head(finals) = {at["sub"].turn}
    BY DEF OwnWords
  <2>5. at'["sub"].pc \in {"control", "text"} /\ at'["sub"].turn # None /\ First(at'["sub"].turn, cut')
          => Head(finals') = {at'["sub"].turn}
    BY <1>6, <2>2, <2>3, <2>4
  <2> HIDE DEF Opens
  <2>6. QED
    BY <1>3, <2>2, <2>5 DEF OwnWords
<1>7. QED
  BY <1>4, <1>5, <1>6, SubStep

\* A message is of another turn only after a cut.
LEMMA TranscriptStep ==
    ASSUME ChatAssumption, TypeOK, InOrder, RoomToSpeak, OwnWords, TranscriptReachesItsTurn, [Next]_vars
    PROVE  TranscriptReachesItsTurn'
<1>1. cut \subseteq cut' /\ cut \subseteq Turns /\ Turns \subseteq Nat
  BY HistoryGrows DEF InOrder, Turns
<1>2. CASE UNCHANGED misheard
  BY <1>1, <1>2 DEF TranscriptReachesItsTurn
<1>3. CASE (FinalCloses \/ FinalStarts) /\ Persist(at["sub"].turn) /\ at["sub"].pc \in {"control", "text"}
  <2> DEFINE t == at["sub"].turn
  <2>1. t \in Turns \cup {None}
    BY OpenedFacts DEF Handlers
  <2>2. misheard' = misheard \/ (misheard' = misheard \cup {t} /\ t # None /\ Head(finals) # {t})
    BY <1>3 DEF Persist
  <2>3. t # None /\ Head(finals) # {t} => ~First(t, cut)
    BY <1>3 DEF OwnWords
  <2> HIDE DEF t
  <2>4. ASSUME t # None, ~First(t, cut) PROVE \E u \in cut : u < t
    BY <1>1, <2>1, <2>4 DEF First
  <2>5. QED
    BY <1>1, <2>2, <2>3, <2>4 DEF TranscriptReachesItsTurn
<1>4. FinalCloses \/ FinalStarts =>
        UNCHANGED misheard \/ (Persist(at["sub"].turn) /\ at["sub"].pc \in {"control", "text"})
  BY DEF FinalCloses, FinalStarts, Pc
<1>5. CASE Client
  <2>1. UNCHANGED misheard
    BY <1>5 DEF Client, UserMessage, ListenForBargeIn, NoSpeech, SpeechStarts, SpeechAfterInterrupt, Flush,
       Abort, Commit, Committed, ChunkLost, Interrupt, BargeIn, Execute, InterruptRun, InterruptPublish, InterruptEnds, turns
  <2>2. QED
    BY <1>2, <2>1
<1>6. CASE Subscriber
  <2>1. UNCHANGED misheard \/ FinalCloses \/ FinalStarts
    BY <1>6 DEF Subscriber, Hears, Final, SpeechEnds, turns
  <2>2. QED
    BY <1>2, <1>3, <1>4, <2>1
<1>7. ASSUME NEW p \in Handlers, Starting(p) PROVE UNCHANGED misheard
  BY <1>7 DEF Starting, StartTask, CreateFailed, GiveUpTurn, turns
<1>8. ASSUME NEW r \in Runs, Run(r) \/ Voice(r) PROVE UNCHANGED misheard
  BY <1>8 DEF Run, Begin, CrewEvent, CommandEnds, CrewAnswers, AnswerDropped, AnswerTold, AnswerKept, CrewFails,
     TornDown, Complete, RecordCompleted,
     RecordFailed, RunEnds, Voice, Ask, Asked, BlockFails, VoiceEnds, VoiceTimesOut, turns
<1>9. CASE UNCHANGED vars
  BY <1>2, <1>9 DEF vars, turns
<1>10. QED
  BY <1>2, <1>5, <1>6, <1>7, <1>8, <1>9 DEF Next
-----------------------------------------------------------------------------
(* One answer                                                               *)

\* An answer stays under way unless its run ends or is interrupted.
LEMMA AnswersStay ==
    ASSUME ChatAssumption, TypeOK, OneTurnEach, [Next]_vars, ~InterruptRun, NEW r \in Runs, Answering(r), ~RunEnds(r)
    PROVE  Answering(r)' /\ holds'[r] = holds[r]
<1>1. stage \in [Runs -> RunStages] /\ holds \in [Runs -> Turns \cup {None}]
  BY DEF TypeOK
<1>2. CASE UNCHANGED <<holds, stage>>
  BY <1>2 DEF Answering
<1>3. CASE Client
  <2>1. UNCHANGED <<holds, stage>>
    BY <1>3 DEF Client, UserMessage, StartRun, ListenForBargeIn, NoSpeech, SpeechStarts, SpeechAfterInterrupt, Flush,
       Abort, Commit, Committed, ChunkLost, Interrupt, BargeIn, Execute, InterruptPublish, InterruptEnds, runs
  <2>2. QED
    BY <1>2, <2>1
<1>4. CASE Subscriber
  <2>1. UNCHANGED <<holds, stage>>
    BY <1>4 DEF Subscriber, Hears, Final, FinalCloses, FinalStarts, StartRun, SpeechEnds, runs
  <2>2. QED
    BY <1>2, <2>1
<1>5. ASSUME NEW p \in Handlers, Starting(p) PROVE Answering(r)' /\ holds'[r] = holds[r]
  <2>1. CreateFailed(p) \/ GiveUpTurn(p) => UNCHANGED <<holds, stage>>
    BY DEF CreateFailed, GiveUpTurn, runs
  <2>2. StartTask(p) => /\ UNCHANGED holds /\ stage' = [stage EXCEPT ![at[p].run] = "created"]
                        /\ stage[at[p].run] = "none"
    BY TaskFacts
  <2>3. StartTask(p) => at[p].run # r
    BY <2>2 DEF Answering
  <2>4. QED
    BY <1>1, <1>2, <1>5, <2>1, <2>2, <2>3 DEF Starting, Answering
<1>6. ASSUME NEW q \in Runs, Run(q) PROVE Answering(r)' /\ holds'[r] = holds[r]
  <2>1. CASE q = r
    <3>1. RecordCompleted(r) \/ CrewEvent(r)
      BY <1>6, <2>1 DEF Run, Answering, Begin, CommandEnds, CrewAnswers, AnswerDropped, AnswerTold, AnswerKept,
         CrewFails, TornDown, Complete, RecordFailed
    <3>2. UNCHANGED holds /\ (UNCHANGED stage \/ stage' = [stage EXCEPT ![r] = "complete"])
      BY <3>1 DEF RecordCompleted, CrewEvent, runs
    <3>3. QED
      BY <1>1, <1>2, <3>2 DEF Answering
  <2>2. CASE q # r
    <3>1. holds'[r] = holds[r]
      BY <1>1, <1>6, <2>2 DEF Run, Begin, CrewEvent, CommandEnds, CrewAnswers, AnswerDropped, AnswerTold,
         AnswerKept, CrewFails, TornDown, Complete,
         RecordCompleted, RecordFailed, RunEnds, runs
    <3>2. stage'[r] = stage[r]
      BY <1>1, <1>6, <2>2 DEF Run, Begin, CrewEvent, CommandEnds, CrewAnswers, AnswerDropped, AnswerTold,
         AnswerKept, CrewFails, TornDown, Complete,
         RecordCompleted, RecordFailed, RunEnds, runs
    <3>3. QED
      BY <3>1, <3>2 DEF Answering
  <2>3. QED
    BY <2>1, <2>2
<1>7. ASSUME NEW q \in Runs, Voice(q) PROVE Answering(r)' /\ holds'[r] = holds[r]
  <2>1. ~VoiceTimesOut(q) => UNCHANGED <<holds, stage>>
    BY <1>7 DEF Voice, Ask, Asked, BlockFails, VoiceEnds, runs
  <2>2. VoiceTimesOut(q) => q # r /\ UNCHANGED holds /\ stage' = [stage EXCEPT ![q] = "done"]
    BY DEF VoiceTimesOut, Answering
  <2>3. QED
    BY <1>1, <1>2, <2>1, <2>2 DEF Answering
<1>8. CASE UNCHANGED vars
  BY <1>2, <1>8 DEF vars, runs
<1>9. QED
  BY <1>2, <1>3, <1>4, <1>5, <1>6, <1>7, <1>8 DEF Next

\* Who sends a message_completed, and for which turn.
LEMMA RepliesMove ==
    ASSUME ChatAssumption, TypeOK, InOrder, RoomToSpeak, [Next]_vars
    PROVE  \/ UNCHANGED replies
           \/ /\ InterruptPublish /\ Pc("client", "run_end") /\ at["client"].turn \in Turns
              /\ replies' = [replies EXCEPT ![at["client"].turn] = @ + 1]
           \/ \E r \in Runs : /\ Complete(r) /\ stage[r] = "drain" /\ turn \in Turns
                              /\ replies' = [replies EXCEPT ![turn] = @ + 1]
                              /\ stage' = [stage EXCEPT ![r] = "emit"] /\ holds' = [holds EXCEPT ![r] = turn]
                              /\ at["client"].pc \in Interrupting /\ at["client"].turn = turn => turn \in overlapped'
                              /\ UNCHANGED <<turn, at>>
<1>1. turn \in Turns \cup {None} /\ at["client"].turn \in Turns \cup {None}
  BY OpenedFacts DEF Handlers, TypeOK
<1>2. CASE UserMessage \/ SpeechStarts \/ SpeechAfterInterrupt
  BY <1>2, TurnOpens
<1>3. CASE InterruptPublish
  BY <1>1, <1>3 DEF InterruptPublish
<1>4. CASE Client /\ ~InterruptPublish /\ ~(UserMessage \/ SpeechStarts \/ SpeechAfterInterrupt)
  BY <1>4 DEF Client, ListenForBargeIn, NoSpeech, Flush,
     Abort, Commit, Committed, ChunkLost, Interrupt, BargeIn, Execute, InterruptRun, InterruptEnds
<1>5. CASE Subscriber
  BY <1>5 DEF Subscriber, Hears, Final, FinalCloses, FinalStarts, SpeechEnds
<1>6. ASSUME NEW p \in Handlers, Starting(p) PROVE UNCHANGED replies
  BY <1>6 DEF Starting, StartTask, CreateFailed, GiveUpTurn
<1>7. ASSUME NEW r \in Runs, Complete(r)
      PROVE  \/ UNCHANGED replies
             \/ /\ stage[r] = "drain" /\ turn \in Turns
                /\ replies' = [replies EXCEPT ![turn] = @ + 1]
                /\ stage' = [stage EXCEPT ![r] = "emit"] /\ holds' = [holds EXCEPT ![r] = turn]
                /\ at["client"].pc \in Interrupting /\ at["client"].turn = turn => turn \in overlapped'
                /\ UNCHANGED <<turn, at>>
  <2>1. CASE turn = None
    BY <1>7, <2>1 DEF Complete
  <2>2. CASE turn # None
    BY <1>1, <1>7, <2>2 DEF Complete, fields
  <2>3. QED
    BY <2>1, <2>2
<1>8. ASSUME NEW r \in Runs, Run(r) \/ Voice(r), ~Complete(r) PROVE UNCHANGED replies
  BY <1>8 DEF Run, Begin, CrewEvent, CommandEnds, CrewAnswers, AnswerDropped, AnswerTold, AnswerKept, CrewFails,
     TornDown, RecordCompleted,
     RecordFailed, RunEnds, Voice, Ask, Asked, BlockFails, VoiceEnds, VoiceTimesOut
<1>9. CASE UNCHANGED vars
  BY <1>9 DEF vars
<1>10. QED
  BY <1>2, <1>3, <1>4, <1>5, <1>6, <1>7, <1>8, <1>9 DEF Next

\* A second message would need a run without its turn, or an interrupt that crosses the answer.
LEMMA AnsweredStep ==
    ASSUME ChatAssumption, TypeOK, InOrder, RoomToSpeak, OneTurnEach, OpenTurn, OwnTurn, AnsweredOnce, [Next]_vars
    PROVE  AnsweredOnce'
<1> SUFFICES ASSUME strays' = {}, NEW t \in Turns \ overlapped'
             PROVE  /\ replies'[t] <= 1
                    /\ at'["client"].pc \in {"cancel", "run_end"} /\ at'["client"].turn = t => replies'[t] = 0
                    /\ replies'[t] # 0 /\ turn' = t =>
                         (\E r \in Runs : Answering(r)' /\ holds'[r] = t) \/ (Pc("client", "publish")' /\ at'["client"].turn = t)
  BY DEF AnsweredOnce
<1>1. strays = {} /\ t \notin overlapped /\ t \in Turns /\ t # None
  BY HistoryGrows, Missing
<1>2. /\ replies[t] <= 1 /\ replies[t] \in Nat /\ replies \in [Turns -> Nat]
      /\ at["client"].pc \in {"cancel", "run_end"} /\ at["client"].turn = t => replies[t] = 0
      /\ replies[t] # 0 /\ turn = t =>
           (\E r \in Runs : Answering(r) /\ holds[r] = t) \/ (Pc("client", "publish") /\ at["client"].turn = t)
  BY <1>1 DEF AnsweredOnce, TypeOK
<1>3. \A r \in Runs : Live(r) => runTask = r /\ turn = of[r]
  BY <1>1 DEF OwnTurn
<1>4. \A r \in Runs : Answering(r) => Live(r)
  BY DEF Answering, Live
<1>5. Interrupting = {"cancel", "run_end", "publish"}
  BY DEF Interrupting
<1>6. CASE UserMessage \/ SpeechStarts \/ SpeechAfterInterrupt
  <2>1. NextTurn \in Turns /\ kind[NextTurn] = "none" /\ turn' = NextTurn /\ UNCHANGED replies
    BY <1>6, TurnOpens
  <2>2. at'["client"].pc \notin Interrupting
    BY <1>5, <1>6, TurnOpens DEF Starts, Moves
  <2>3. replies[NextTurn] = 0
    BY <2>1 DEF InOrder
  <2>4. QED
    BY <1>2, <1>5, <2>1, <2>2, <2>3
<1>7. CASE ~(UserMessage \/ SpeechStarts \/ SpeechAfterInterrupt)
  <2>1. turn' \in {turn, None} /\ ClientGoes
    BY <1>7, NothingOpens, ClientStep
  <2>2. CASE InterruptPublish
    <3>1. Moves("client", "publish", at["client"].turn) /\ Pc("client", "run_end") /\ UNCHANGED <<turn, stage, holds>>
      BY <2>2, ClientMoves DEF InterruptPublish, runs
    <3>2. CASE at["client"].turn = t
      <4>1. replies[t] = 0
        BY <1>2, <3>1, <3>2 DEF Pc
      <4>2. replies'[t] = 1
        BY <1>1, <1>2, <2>2, <3>2, <4>1 DEF InterruptPublish
      <4>3. QED
        BY <3>1, <3>2, <4>2 DEF Moves, Pc
    <3>3. CASE at["client"].turn # t
      <4>1. replies'[t] = replies[t]
        BY <1>1, <1>2, <2>2, <3>3 DEF InterruptPublish
      <4>2. QED
        BY <1>2, <3>1, <3>3, <4>1 DEF Moves, Pc, Answering
    <3>4. QED
      BY <3>2, <3>3
  <2>3. ASSUME NEW r \in Runs, Complete(r), stage[r] = "drain", turn \in Turns,
               replies' = [replies EXCEPT ![turn] = @ + 1],
               stage' = [stage EXCEPT ![r] = "emit"], holds' = [holds EXCEPT ![r] = turn],
               at["client"].pc \in Interrupting /\ at["client"].turn = turn => turn \in overlapped',
               UNCHANGED <<turn, at>>
        PROVE  /\ replies'[t] <= 1
               /\ at'["client"].pc \in {"cancel", "run_end"} /\ at'["client"].turn = t => replies'[t] = 0
               /\ replies'[t] # 0 /\ turn' = t =>
                    (\E q \in Runs : Answering(q)' /\ holds'[q] = t) \/ (Pc("client", "publish")' /\ at'["client"].turn = t)
    <3>1. CASE turn = t
      <4>1. ~(at["client"].pc \in Interrupting /\ at["client"].turn = t)
        BY <2>3, <3>1
      <4>2. \A q \in Runs : ~Answering(q)
        BY <1>3, <1>4, <2>3 DEF Answering, Live
      <4>3. replies[t] = 0
        BY <1>2, <1>5, <3>1, <4>1, <4>2 DEF Pc
      <4>4. replies'[t] = 1
        BY <1>2, <2>3, <3>1, <4>3
      <4>5. Answering(r)' /\ holds'[r] = t
        BY <2>3, <3>1 DEF Answering, TypeOK
      <4>6. QED
        BY <1>5, <2>3, <4>1, <4>4, <4>5
    <3>2. CASE turn # t
      <4>1. replies'[t] = replies[t]
        BY <1>2, <2>3, <3>2
      <4>2. QED
        BY <1>2, <2>3, <3>2, <4>1
    <3>3. QED
      BY <3>1, <3>2
  <2>4. CASE UNCHANGED replies /\ ~InterruptPublish
    <3>1. at'["client"].pc \in {"cancel", "run_end"} /\ at'["client"].turn = t => replies[t] = 0
      <4>1. CASE at'["client"] = at["client"]
        BY <1>2, <4>1
      <4>2. CASE at'["client"].pc \notin Interrupting
        BY <1>5, <4>2
      <4>3. CASE (Interrupt \/ BargeIn) /\ at'["client"].turn = turn
        <5>1. ~Pc("client", "publish")
          BY <4>3 DEF Interrupt, BargeIn, Pc
        <5>2. overlapped' = overlapped \cup {holds[r] : r \in {q \in Runs : Answering(q)}}
          BY <4>3 DEF Interrupt, BargeIn, Execute, Answering
        <5>3. ~\E r \in Runs : Answering(r) /\ holds[r] = t
          BY <5>2
        <5>4. QED
          BY <1>2, <4>3, <5>1, <5>3
      <4>4. CASE InterruptRun /\ at'["client"].turn = at["client"].turn
        BY <1>2, <4>4 DEF InterruptRun, Pc
      <4>5. QED
        BY <2>1, <2>4, <4>1, <4>2, <4>3, <4>4, <1>5 DEF ClientGoes
    <3>2. ASSUME replies[t] # 0, turn' = t
          PROVE  (\E r \in Runs : Answering(r)' /\ holds'[r] = t) \/ (Pc("client", "publish")' /\ at'["client"].turn = t)
      <4>1. turn = t /\ turn' # None
        BY <1>1, <2>1, <3>2
      <4>2. ~InterruptRun
        <5>1. ASSUME InterruptRun PROVE FALSE
          <6>1. Pc("client", "cancel")
            BY <5>1 DEF InterruptRun
          <6>2. at["client"].turn = t
            BY <1>1, <1>5, <4>1, <6>1 DEF OpenTurn, Pc
          <6>3. QED
            BY <1>2, <3>2, <6>1, <6>2 DEF Pc
        <5>2. QED
          BY <5>1
      <4>3. CASE Pc("client", "publish") /\ at["client"].turn = t
        <5>1. at'["client"] = at["client"]
          BY <1>5, <2>1, <2>4, <4>1, <4>2, <4>3 DEF ClientGoes, Pc, Interrupt, BargeIn
        <5>2. QED
          BY <4>3, <5>1 DEF Pc
      <4>4. ASSUME NEW r \in Runs, Answering(r), holds[r] = t PROVE Answering(r)' /\ holds'[r] = t
        <5>1. ~RunEnds(r)
          BY <4>1 DEF RunEnds, FinalizeToReady, Finalize
        <5>2. QED
          BY <4>2, <4>4, <5>1, AnswersStay
      <4>5. QED
        BY <1>2, <3>2, <4>1, <4>3, <4>4
    <3>3. QED
      BY <1>2, <2>4, <3>1, <3>2
  <2>5. QED
    BY <2>2, <2>3, <2>4, RepliesMove
<1>8. QED
  BY <1>6, <1>7
-----------------------------------------------------------------------------
(* Who serves a busy session                                                *)

\* A message opens a turn of its own, with a run or a failed create.
LEMMA MessageStarts ==
    ASSUME TypeOK, UserMessage
    PROVE  /\ NextTurn \in Turns /\ kind' = [kind EXCEPT ![NextTurn] = "text"] /\ turn' = NextTurn
           /\ Starts("client", NextTurn) /\ UNCHANGED <<stage, id, accidents>>
<1>1. "client" \in Handlers
  BY DEF Handlers
<1>2. QED
  BY <1>1, StartRunFacts DEF UserMessage, NewTurn, history

\* A run takes the id of its turn when it begins to work.
LEMMA OwnIdStep ==
    ASSUME ChatAssumption, TypeOK, InOrder, RoomToSpeak, OneTurnEach, OwnTurn, OwnId, [Next]_vars
    PROVE  OwnId'
<1>1. /\ stage \in [Runs -> RunStages] /\ id \in [Runs -> Runs \cup {None}] /\ row \in [Runs -> Rows]
      /\ of \in [Runs -> Turns \cup {None}] /\ runOf \in [Turns -> Runs \cup {None}]
  BY DEF TypeOK
<1>2. ASSUME NEW p, NEW t \in Turns, Starts(p, t), UNCHANGED <<stage, id>> PROVE OwnId'
  <2>1. NextRun \in Runs => row[NextRun] = "none" /\ stage[NextRun] = "none" /\ id[NextRun] = None
    BY NextRunIsNew DEF OneTurnEach, OwnId
  <2>2. \A r \in Runs : id'[r] # None => row'[r] # "none"
    BY <1>1, <1>2, <2>1 DEF Starts, OwnId
  <2>3. \A r \in Runs : stage'[r] \in {"working", "answered"} => id'[r] # None
    BY <1>2 DEF OwnId
  <2>4. ASSUME NEW r \in Runs, stage'[r] \in {"working", "answered"}, of'[r] # None, runOf'[of'[r]] = r
        PROVE  id'[r] = r
    <3>1. stage[r] = stage'[r] /\ id'[r] = id[r] /\ (NextRun \in Runs => r # NextRun)
      BY <1>2, <2>1, <2>4
    <3>2. of'[r] = of[r] /\ of[r] \in Turns
      BY <1>1, <1>2, <2>4, <3>1 DEF Starts
    <3>3. runOf[of[r]] = r
      BY <1>1, <1>2, <2>4, <3>1, <3>2 DEF Starts
    <3>4. QED
      BY <2>4, <3>1, <3>2, <3>3 DEF OwnId
  <2>5. QED
    BY <2>2, <2>3, <2>4 DEF OwnId
<1>3. CASE UserMessage
  BY <1>2, <1>3, MessageStarts
<1>4. CASE FinalStarts
  <2>1. CASE UNCHANGED <<row, of, runOf, stage, id>>
    BY <2>1 DEF OwnId
  <2>2. QED
    BY <1>2, <1>4, <2>1, TranscriptStarts
<1>5. ASSUME ~UserMessage, ~FinalStarts
      PROVE  UNCHANGED <<of, runOf>> /\ \A r \in Runs : row[r] # "none" => row'[r] # "none"
  BY <1>1, <1>5, RowsStay DEF Rewritten
<1>6. ASSUME NEW r \in Runs, Begin(r) PROVE OwnId'
  <2>1. /\ row' = row /\ UNCHANGED <<of, runOf>> /\ row[r] # "none" /\ stage[r] = "created"
        /\ of[r] \in Turns /\ runOf[of[r]] # None
    BY <1>1, <1>6 DEF Begin, OneTurnEach
  <2>2. \/ stage' = [stage EXCEPT ![r] = "working"] /\ id' = [id EXCEPT ![r] = runOf[of[r]]]
        \/ (\E x \in {"error", "command"} : stage' = [stage EXCEPT ![r] = x]) /\ id' = id
    BY <1>6 DEF Begin
  <2>3. QED
    BY <1>1, <2>1, <2>2 DEF OwnId
<1>7. ASSUME ~UserMessage, ~FinalStarts, \A r \in Runs : ~Begin(r)
      PROVE  /\ UNCHANGED id
             /\ \A r \in Runs : stage'[r] \in {"working", "answered"} => stage[r] \in {"working", "answered"}
  <2> DEFINE Works(s) == s \in {"working", "answered"}
  <2>1. CASE Client /\ ~InterruptRun
    BY <1>7, <2>1 DEF Client, ListenForBargeIn, NoSpeech, SpeechStarts, SpeechAfterInterrupt, Flush,
       Abort, Commit, Committed, ChunkLost, Interrupt, BargeIn, Execute, InterruptPublish, InterruptEnds, runs
  <2>2. CASE InterruptRun
    <3>1. /\ UNCHANGED id
          /\ \/ stage' = stage
             \/ stage[runTask] = "working" /\ stage' = [stage EXCEPT ![runTask] = "stopping"]
             \/ stage' = [stage EXCEPT ![runTask] = "done"]
      BY <2>2 DEF InterruptRun
    <3>2. QED
      BY <1>1, <3>1
  <2>3. CASE Subscriber
    BY <1>7, <2>3 DEF Subscriber, Hears, Final, FinalCloses, SpeechEnds, runs
  <2>4. ASSUME NEW p \in Handlers, Starting(p)
        PROVE  UNCHANGED id /\ \A r \in Runs : Works(stage'[r]) => Works(stage[r])
    <3>1. UNCHANGED id /\ (stage' = stage \/ stage' = [stage EXCEPT ![at[p].run] = "created"])
      BY <2>4 DEF Starting, StartTask, CreateFailed, GiveUpTurn, runs
    <3>2. QED
      BY <1>1, <3>1
  <2>5. ASSUME NEW r \in Runs, Run(r) \/ Voice(r)
        PROVE  UNCHANGED id /\ \A q \in Runs : Works(stage'[q]) => Works(stage[q])
    <3>1. /\ UNCHANGED id
          /\ \/ stage' = stage
             \/ Works(stage[r]) /\ \E s : stage' = [stage EXCEPT ![r] = s]
             \/ \E s \in {"command", "drain", "error", "emit", "complete", "failing", "done"} : stage' = [stage EXCEPT ![r] = s]
      BY <1>7, <2>5 DEF Run, Voice, CrewEvent, CommandEnds, CrewAnswers, AnswerDropped, AnswerTold, AnswerKept,
         CrewFails, TornDown, Complete, RecordCompleted,
         RecordFailed, RunEnds, Ask, Asked, BlockFails, VoiceEnds, VoiceTimesOut, runs
    <3>2. QED
      BY <1>1, <3>1
  <2>6. CASE UNCHANGED vars
    BY <2>6 DEF vars, runs
  <2>7. QED
    BY <2>1, <2>2, <2>3, <2>4, <2>5, <2>6 DEF Next
<1>8. CASE ~UserMessage /\ ~FinalStarts /\ \A r \in Runs : ~Begin(r)
  BY <1>5, <1>7, <1>8 DEF OwnId
<1>9. QED
  BY <1>3, <1>4, <1>6, <1>8

\* What is served stays so while a handler moves on that was not closing the turn.
LEMMA StillServed ==
    ASSUME Served, Recording', UNCHANGED <<turn, runOf, stage, accidents>>,
           state' = state \/ (turn # None /\ (runOf[turn] # None \/ Pc("client", "commit"))),
           finals # <<>> => finals' # <<>>,
           at["sub"].pc \in {"control", "text", "empty"} => at'["sub"].pc \in {"control", "text", "empty"},
           Pc("client", "commit")' => Pc("client", "commit"),
           at["client"].pc \in Interrupting \cup {"abort"} => at'["client"].pc = at["client"].pc,
           \A p \in Handlers : at[p].pc \in {"starting", "create_failed", "failing"} => at'[p] = at[p]
    PROVE  Served'
<1>1. EndInSight => EndInSight'
  BY DEF EndInSight
<1>2. \A r : Answers(r) => Answers(r)'
  BY DEF Answers, Live, Pc
<1>3. NobodyIsBusy'
  BY <1>1 DEF Served, NobodyIsBusy
<1>4. TurnIsServed'
  BY <1>1, <1>2 DEF Served, TurnIsServed
<1>5. QED
  BY <1>3, <1>4 DEF Served

\* Neither has a closed turn to be served, nor one that is being closed.
LEMMA ClosedIsServed ==
    ASSUME turn' = None, state' \in {"ready", "closed"}
    PROVE  Served'
  BY DEF Served, NobodyIsBusy, Recording, TurnIsServed, IsAudio

LEMMA EndServes ==
    ASSUME at'["client"].pc \in Interrupting \cup {"abort"}
    PROVE  Served'
<1>1. EndInSight'
  BY DEF EndInSight
<1>2. QED
  BY <1>1 DEF Served, NobodyIsBusy, Recording, TurnIsServed

\* A run goes to another stage while the turn stays open.
LEMMA RunServes ==
    ASSUME TypeOK, Served, NEW r \in Runs, NEW s,
           UNCHANGED <<turn, kind, committed, runOf, at, asr>>, accidents \subseteq accidents',
           stage' = [stage EXCEPT ![r] = s], Live(r), s # "none", stage[r] \notin {"complete", "failing"},
           turn # None /\ runOf[turn] = r =>
             s \notin {"stopping", "done"} \/ stage[r] = "stopping" \/ accidents' # {},
           \/ state' = state
           \/ s \in {"complete", "failing"}
           \/ turn # None /\ runOf[turn] # None
           \/ accidents' # {}
    PROVE  Served'
<1>1. stage'[r] = s /\ \A q \in Runs : q # r => stage'[q] = stage[q]
  BY DEF TypeOK
<1>2. EndInSight => EndInSight'
  <2>1. \A q \in Runs : stage[q] \in {"complete", "failing"} => stage'[q] \in {"complete", "failing"}
    BY <1>1
  <2>2. QED
    BY <2>1 DEF EndInSight
<1>3. s \in {"complete", "failing"} => EndInSight'
  BY <1>1 DEF EndInSight
<1>4. accidents' = {} /\ turn # None /\ runOf[turn] # None /\ Answers(runOf[turn]) => Answers(runOf[turn])'
  <2>1. ASSUME accidents' = {}, turn # None, NEW q \in Runs, runOf[turn] = q, stage[q] \notin {"none", "done", "stopping"}
        PROVE  stage'[q] \notin {"none", "done", "stopping"}
    BY <1>1, <2>1
  <2>2. QED
    BY <2>1 DEF Answers, Live, Pc
<1>5. NobodyIsBusy'
  BY <1>2, <1>3 DEF Served, NobodyIsBusy
<1>6. Recording'
  BY DEF Served, Recording, IsAudio, asr
<1>7. TurnIsServed'
  BY <1>2, <1>3, <1>4 DEF Served, TurnIsServed, Pc, asr
<1>8. QED
  BY <1>5, <1>6, <1>7 DEF Served

\* A run that is made, or could not be, serves the turn it was made for.
LEMMA StartServes ==
    ASSUME ChatAssumption, TypeOK, NEW p \in Handlers, NEW t \in Turns, Starts(p, t), turn' = t, Recording'
    PROVE  Served'
<1>1. CASE at'[p].pc = "create_failed"
  <2>1. EndInSight'
    BY <1>1 DEF EndInSight
  <2>2. QED
    BY <2>1 DEF Served, NobodyIsBusy, TurnIsServed
<1>2. CASE at'[p].pc # "create_failed"
  <2>1. PICK n \in Runs : runOf' = [runOf EXCEPT ![t] = n] /\ at'[p].pc = "starting" /\ at'[p].run = n
    BY <1>2 DEF Starts, Moves
  <2>2. runOf'[turn'] = n /\ n # None
    BY <2>1, Missing DEF TypeOK
  <2>3. Answers(n)'
    BY <2>1 DEF Answers, Pc
  <2>4. TurnIsServed'
    BY <2>2, <2>3 DEF TurnIsServed
  <2>5. turn' # None
    BY Missing
  <2>6. QED
    BY <2>4, <2>5 DEF Served, NobodyIsBusy
<1>3. QED
  BY <1>1, <1>2

\* The browser's messages.
LEMMA ClientServes ==
    ASSUME ChatAssumption, TypeOK, InOrder, RoomToSpeak, OpenTurn, Served, Client
    PROVE  Served'
<1>1. /\ Handlers = {"client", "sub"} /\ Interrupting = {"cancel", "run_end", "publish"}
      /\ kind \in [Turns -> {"none", "text", "audio"}] /\ turn \in Turns \cup {None}
  BY DEF Handlers, Interrupting, TypeOK
<1>0. Unavailable => at'["client"].pc = "abort"
  <2>1. "abort" \in Stops
    BY DEF Stops
  <2>2. QED
    BY <1>1, <2>1, GoesOn DEF Unavailable, Moves, TypeOK
<1>2. CASE UserMessage
  <2>1. NextTurn \in Turns /\ kind' = [kind EXCEPT ![NextTurn] = "text"] /\ turn' = NextTurn /\ Starts("client", NextTurn)
    BY <1>2, MessageStarts
  <2>2. Recording'
    BY <1>1, <2>1 DEF Recording, IsAudio
  <2>3. QED
    BY <1>1, <2>1, <2>2, StartServes
<1>3. CASE SpeechStarts \/ SpeechAfterInterrupt
  <2>1. /\ NextTurn \in Turns /\ NextTurn # None /\ turn' = NextTurn /\ state' = "buffering" /\ runOf' = runOf
        /\ kind[NextTurn] = "none" /\ at'["client"].pc = "flush"
    <3>1. state' = "buffering" /\ runOf' = runOf
      BY <1>3 DEF SpeechStarts, SpeechAfterInterrupt, BeginAudioTurn, runs
    <3>2. NextTurn \in Turns
      BY <1>3, TurnOpens
    <3>3. QED
      BY <1>3, <3>1, <3>2, TurnOpens, ClientMoves DEF Moves
  <2>2. runOf'[turn'] = None
    BY <2>1 DEF InOrder
  <2>3. QED
    BY <2>1, <2>2 DEF Served, NobodyIsBusy, Recording, TurnIsServed, Pc
<1>4. CASE ListenForBargeIn \/ NoSpeech
  <2>1. /\ UNCHANGED <<fields, turns, runs, asr, history>> /\ at["client"].pc \in {"idle", "vad"}
        /\ at'["client"].pc \in {"vad", "idle"} /\ at'["sub"] = at["sub"]
    BY <1>1, <1>4, ClientMoves DEF ListenForBargeIn, NoSpeech, Moves, Pc
  <2>2. Recording'
    BY <1>1, <2>1 DEF Served, Recording, IsAudio, fields, turns, asr
  <2>3. QED
    BY <1>1, <2>1, <2>2, StillServed DEF fields, turns, runs, asr, history, Pc
<1>5. CASE Flush /\ at'["client"].pc # "abort"
  <2>1. /\ UNCHANGED <<fields, turns, runs, finals, history>> /\ Pc("client", "flush")
        /\ at'["client"].pc = "idle" /\ at'["sub"] = at["sub"]
    BY <1>1, <1>5, ClientMoves DEF Flush, Moves
  <2>2. buffer' # {}
    BY <1>0, <1>5 DEF Flush
  <2>3. Recording'
    BY <2>2 DEF Recording
  <2>4. QED
    BY <1>1, <2>1, <2>3, StillServed DEF fields, runs, history, Pc
<1>6. CASE Commit /\ at'["client"].pc # "abort"
  <2>1. /\ Pc("client", "idle") /\ IsAudio(turn) /\ ~committed /\ committed' = TRUE /\ turn' = turn /\ AsrCommit
    BY <1>0, <1>6 DEF Commit
  <2>2. buffer # {}
    BY <1>1, <2>1 DEF Served, Recording, Pc
  <2>3. finals' # <<>> \/ accidents' # {}
    <3>1. Append(finals, buffer) # <<>>
      BY AppendFacts DEF TypeOK
    <3>2. accidents \cup {"silent_asr"} # {}
      OBVIOUS
    <3>3. QED
      BY <2>1, <2>2, <3>1, <3>2 DEF AsrCommit
  <2>4. turn # None
    BY <2>1 DEF IsAudio
  <2>5. QED
    BY <2>1, <2>3, <2>4 DEF Served, NobodyIsBusy, Recording, TurnIsServed
<1>7. CASE Committed
  <2>1. CASE turn = None
    BY <1>7, <2>1, ClosedIsServed DEF Committed
  <2>2. CASE turn # None
    <3>1. /\ UNCHANGED <<turn, committed, kind, runs, asr, accidents>> /\ Pc("client", "commit")
          /\ at'["client"].pc = "idle" /\ at'["sub"] = at["sub"]
      BY <1>1, <1>7, <2>2, ConnectionEnds DEF Committed, Moves, turns, history
    <3>2. Recording'
      BY <1>1, <3>1 DEF Served, Recording, IsAudio, asr, Pc
    <3>3. QED
      BY <1>1, <2>2, <3>1, <3>2, StillServed DEF runs, asr, Pc
  <2>3. QED
    BY <2>1, <2>2
<1>8. CASE \/ (Flush \/ Commit) /\ at'["client"].pc = "abort"
           \/ ChunkLost \/ Interrupt \/ BargeIn \/ InterruptRun \/ InterruptPublish
  BY <1>1, <1>8, ClientMoves, EndServes DEF Moves
<1>9. CASE Abort \/ InterruptEnds
  BY <1>9, ClosedIsServed DEF Abort, InterruptEnds, FinalizeToReady, Finalize
<1>10. QED
  BY <1>2, <1>3, <1>4, <1>5, <1>6, <1>7, <1>8, <1>9 DEF Client

\* The transcripts.
LEMMA TranscriptsServe ==
    ASSUME ChatAssumption, TypeOK, OwnWords, Served, Subscriber
    PROVE  Served'
<1>1. Handlers = {"client", "sub"}
  BY DEF Handlers
<1>2. ASSUME NEW text \in {"text", "control", "noise"}, Final(text) PROVE Served'
  <2>1. CASE FinalizeToReady(None)
    BY <2>1, ClosedIsServed DEF FinalizeToReady, Finalize
  <2>2. CASE ~FinalizeToReady(None)
    <3>1. /\ UNCHANGED <<fields, turns, runs, buffer, accidents, finals>> /\ Pc("sub", "idle")
          /\ at'["client"] = at["client"] /\ at'["sub"].pc \in {"control", "text", "empty"}
      BY <1>1, <1>2, <2>2, SubMoves DEF Final, Moves
    <3>2. Recording'
      BY <3>1 DEF Served, Recording, IsAudio, fields, turns
    <3>3. QED
      BY <1>1, <3>1, <3>2, StillServed DEF fields, runs, Pc
  <2>3. QED
    BY <2>1, <2>2
<1>3. CASE FinalCloses
  BY <1>3, ClosedIsServed DEF FinalCloses, FinalizeToReady, Finalize
<1>4. CASE FinalStarts
  <2>1. /\ UNCHANGED <<turn, committed, kind, buffer>> /\ at'["client"] = at["client"]
        /\ \/ turn = None /\ UNCHANGED <<state, runOf>> /\ at'["sub"].pc = "idle"
           \/ turn \in Turns /\ Starts("sub", turn)
    BY <1>4, TranscriptStarts DEF Moves
  <2>2. Recording'
    BY <2>1 DEF Served, Recording, IsAudio
  <2>3. CASE turn \in Turns /\ Starts("sub", turn)
    BY <1>1, <2>1, <2>2, <2>3, StartServes
  <2>4. CASE turn = None /\ UNCHANGED <<state, runOf>> /\ at'["sub"].pc = "idle"
    <3>1. UNCHANGED <<stage, accidents>> /\ Pc("sub", "text")
      BY <1>4, TranscriptStarts DEF history
    <3>2. EndInSight => EndInSight'
      BY <1>1, <2>1, <3>1 DEF EndInSight, Pc
    <3>3. QED
      BY <2>1, <2>2, <2>4, <3>1, <3>2 DEF Served, NobodyIsBusy, TurnIsServed
  <2>5. QED
    BY <2>1, <2>3, <2>4
<1>5. ASSUME NEW r \in Runs, SpeechEnds(r) PROVE Served'
  <2>1. UNCHANGED <<fields, turns, runs, at, asr, history>>
    BY <1>5 DEF SpeechEnds
  <2>2. Recording'
    BY <2>1 DEF Served, Recording, IsAudio, fields, turns, asr
  <2>3. QED
    BY <2>1, <2>2, StillServed DEF fields, runs, asr, history, Pc
<1>6. QED
  BY <1>2, <1>3, <1>4, <1>5 DEF Subscriber, Hears

\* The ends of _start_run_for_current_turn.
LEMMA StartingServes ==
    ASSUME ChatAssumption, TypeOK, OneTurnEach, Served, NEW p \in Handlers, Starting(p)
    PROVE  Served'
<1>1. /\ Handlers = {"client", "sub"} /\ Interrupting = {"cancel", "run_end", "publish"}
      /\ stage \in [Runs -> RunStages]
  BY DEF Handlers, Interrupting, TypeOK
<1>2. CASE GiveUpTurn(p)
  BY <1>2, ClosedIsServed DEF GiveUpTurn, FinalizeToReady, Finalize
<1>3. CASE CreateFailed(p)
  <2>1. /\ UNCHANGED <<turn, committed, kind, buffer>> /\ at'[p].pc = "failing" /\ Pc(p, "create_failed")
        /\ \A q \in Handlers : q # p => at'[q] = at[q]
    BY <1>3, StartingMoves DEF CreateFailed, Moves, turns, asr
  <2>2. EndInSight'
    BY <2>1 DEF EndInSight
  <2>3. Recording'
    BY <1>1, <2>1 DEF Served, Recording, IsAudio, Pc
  <2>4. QED
    BY <2>2, <2>3 DEF Served, NobodyIsBusy, TurnIsServed
<1>4. CASE StartTask(p)
  <2>1. /\ UNCHANGED <<state, turn, committed, kind, runOf, buffer, finals, accidents>>
        /\ Pc(p, "starting") /\ at'[p].pc = "idle" /\ \A q \in Handlers : q # p => at'[q] = at[q]
    BY <1>4, StartingMoves DEF StartTask, Moves, turns, asr
  <2>2. PICK r \in Runs : at[p].run = r /\ stage[r] = "none" /\ stage' = [stage EXCEPT ![r] = "created"]
    BY <1>4, TaskFacts
  <2>3. EndInSight => EndInSight'
    BY <1>1, <2>1, <2>2 DEF EndInSight, Pc
  <2>4. \A q \in Runs : Answers(q) => Answers(q)'
    <3>1. stage'[r] = "created" /\ \A q \in Runs : q # r => stage'[q] = stage[q]
      BY <1>1, <2>2
    <3>2. ASSUME NEW q \in Runs, Answers(q) PROVE Answers(q)'
      <4>1. CASE q = r
        BY <3>1, <4>1 DEF Answers, Live
      <4>2. CASE q # r
        BY <2>1, <2>2, <3>1, <3>2, <4>2 DEF Answers, Live, Pc
      <4>3. QED
        BY <4>1, <4>2
    <3>3. QED
      BY <3>2
  <2>5. NobodyIsBusy'
    BY <2>1, <2>3 DEF Served, NobodyIsBusy
  <2>6. Recording'
    BY <1>1, <2>1 DEF Served, Recording, IsAudio, Pc
  <2>7. TurnIsServed'
    <3>1. turn # None /\ runOf[turn] # None => runOf[turn] \in Runs
      BY DEF TypeOK
    <3>2. QED
      BY <1>1, <2>1, <2>3, <2>4, <3>1 DEF Served, TurnIsServed, Pc
  <2>8. QED
    BY <2>5, <2>6, <2>7 DEF Served
<1>5. QED
  BY <1>2, <1>3, <1>4 DEF Starting

\* A run, and its voice.
LEMMA RunsServe ==
    ASSUME ChatAssumption, TypeOK, OneTurnEach, OwnId, Served, NEW r \in Runs, Run(r) \/ Voice(r)
    PROVE  Served'
<1>1. /\ of \in [Runs -> Turns \cup {None}] /\ runOf \in [Turns -> Runs \cup {None}] /\ turn \in Turns \cup {None}
      /\ stage \in [Runs -> RunStages] /\ None \notin Turns /\ None \notin Runs
  BY Missing DEF TypeOK
<1>2. CASE RunEnds(r)
  BY <1>2, ClosedIsServed DEF RunEnds, FinalizeToReady, Finalize
<1>3. CASE Voice(r) /\ ~VoiceTimesOut(r)
  <2>1. UNCHANGED <<fields, turns, runs, at, asr, history>>
    BY <1>3 DEF Voice, Ask, Asked, BlockFails, VoiceEnds
  <2>2. Recording'
    BY <2>1 DEF Served, Recording, IsAudio, fields, turns, asr
  <2>3. QED
    BY <2>1, <2>2, StillServed DEF fields, runs, asr, history, Pc
<1>4. CASE Begin(r)
  <2>1. /\ UNCHANGED <<turn, kind, committed, runOf, at, asr>> /\ stage[r] = "created" /\ Live(r)
        /\ accidents \subseteq accidents'
    BY <1>4 DEF Begin, turns, Live
  <2>2. CASE \E s \in {"error", "command"} : stage' = [stage EXCEPT ![r] = s]
    <3>1. state' = state
      BY <1>1, <1>4, <2>1, <2>2 DEF Begin
    <3>2. QED
      BY <2>1, <2>2, <3>1, RunServes
  <2>3. CASE stage' = [stage EXCEPT ![r] = "working"]
    <3>1. row[r] # "none" /\ runOf[of[r]] # None
      BY <2>1 DEF OneTurnEach
    <3>2. (turn # None /\ runOf[turn] # None) \/ accidents' # {}
      BY <1>1, <1>4, <2>3, <3>1 DEF Begin, Owns
    <3>3. QED
      BY <2>1, <2>3, <3>2, RunServes
  <2>4. QED
    BY <1>4, <2>2, <2>3 DEF Begin
<1>5. CASE CrewEvent(r)
  <2>1. UNCHANGED <<turn, committed, turns, runs, at, asr, history>> /\ id[r] # None /\ (Current(r) \/ turn = of[r])
    BY <1>5 DEF CrewEvent
  <2>2. row[r] # "none"
    BY <2>1 DEF OwnId
  <2>3. turn # None /\ runOf[turn] # None
    BY <2>1, <2>2 DEF Current, OneTurnEach
  <2>4. Recording'
    BY <2>1 DEF Served, Recording, IsAudio, turns, asr
  <2>5. QED
    BY <2>1, <2>3, <2>4, StillServed DEF runs, asr, history, Pc
<1>6. CASE CrewAnswers(r)
  BY <1>6, RunServes DEF CrewAnswers, fields, turns, history, Live
<1>7. stage[r] = "answered" /\ turn # None /\ runOf[turn] = r => Current(r)
  <2>1. ASSUME turn # None, runOf[turn] = r PROVE of[r] = turn
    BY <1>1, <2>1 DEF OneTurnEach
  <2>2. QED
    BY <2>1 DEF OwnId, Current
<1>8. CASE AnswerDropped(r)
  BY <1>7, <1>8, RunServes DEF AnswerDropped, fields, turns, history, Live
<1>9. CASE AnswerKept(r)
  BY <1>9, RunServes DEF AnswerKept, fields, turns, history, Live
<1>10. CASE AnswerTold(r)
  <2>1. turn # None /\ runOf[turn] # None
    BY <1>10 DEF AnswerTold, Current, OwnId
  <2>2. QED
    BY <1>10, <2>1, RunServes DEF AnswerTold, turns, history, Live
<1>11. ASSUME stage[r] # "none" PROVE Owns(r) => turn # None /\ runOf[turn] # None
  BY <1>1, <1>11 DEF Owns, OneTurnEach
<1>12. CASE CommandEnds(r)
  <2>1. (turn # None /\ runOf[turn] # None) \/ accidents' # {}
    BY <1>11, <1>12 DEF CommandEnds
  <2>2. /\ UNCHANGED <<turn, kind, committed, runOf, at, asr>> /\ accidents \subseteq accidents' /\ Live(r)
        /\ stage' = [stage EXCEPT ![r] = "drain"] /\ stage[r] = "command"
    BY <1>12 DEF CommandEnds, turns, Live
  <2>3. QED
    BY <2>1, <2>2, RunServes
<1>13. CASE VoiceTimesOut(r)
  <2>1. /\ UNCHANGED <<state, turn, kind, committed, runOf, at, asr>> /\ accidents \subseteq accidents' /\ Live(r)
        /\ stage' = [stage EXCEPT ![r] = "done"] /\ stage[r] \in {"stopping", "giving_up", "drain"}
    BY <1>13 DEF VoiceTimesOut, fields, turns, Live
  <2>2. turn # None /\ runOf[turn] = r => Owns(r)
    BY <1>1 DEF Owns, OneTurnEach
  <2>3. turn # None /\ runOf[turn] = r => stage[r] = "stopping" \/ accidents' # {}
    BY <1>13, <2>2 DEF VoiceTimesOut
  <2>4. QED
    BY <2>1, <2>3, RunServes
<1>14. CASE CrewFails(r)
  BY <1>14, RunServes DEF CrewFails, fields, turns, history, Live
<1>15. CASE TornDown(r)
  <2>1. /\ UNCHANGED <<state, turn, kind, committed, runOf, at, asr, accidents>> /\ Live(r)
        /\ \/ stage[r] = "stopping" /\ stage' = [stage EXCEPT ![r] = "done"]
           \/ stage[r] = "giving_up" /\ stage' = [stage EXCEPT ![r] = "error"]
    BY <1>15 DEF TornDown, fields, turns, history, Live
  <2>2. QED
    BY <2>1, RunServes
<1>16. CASE Complete(r)
  <2>1. /\ UNCHANGED <<state, turn, kind, committed, runOf, at, asr, accidents>> /\ stage[r] = "drain" /\ Live(r)
        /\ \/ turn = None /\ stage' = [stage EXCEPT ![r] = "done"]
           \/ stage' = [stage EXCEPT ![r] = "emit"]
    BY <1>16 DEF Complete, fields, turns, Live
  <2>2. QED
    BY <2>1, RunServes
<1>17. CASE RecordCompleted(r) \/ RecordFailed(r)
  <2>1. /\ UNCHANGED <<turn, kind, committed, runOf, at, asr, accidents>> /\ stage[r] \in {"emit", "error"} /\ Live(r)
        /\ \E s \in {"complete", "failing"} : stage' = [stage EXCEPT ![r] = s]
    BY <1>17 DEF RecordCompleted, RecordFailed, turns, history, Live
  <2>2. QED
    BY <2>1, RunServes
<1>18. QED
  BY <1>2, <1>3, <1>4, <1>5, <1>6, <1>14, <1>15, <1>16, <1>17, <1>8, <1>9, <1>10, <1>12, <1>13 DEF Run

\* A busy session stays served.
LEMMA ServedStep ==
    ASSUME ChatAssumption, TypeOK, InOrder, RoomToSpeak, OneTurnEach, OpenTurn, OwnWords, OwnId, Served, [Next]_vars
    PROVE  Served'
<1>1. CASE UNCHANGED vars
  <2>1. UNCHANGED <<fields, turns, runs, at, asr, history>>
    BY <1>1 DEF vars
  <2>2. Recording'
    BY <2>1 DEF Served, Recording, IsAudio, fields, turns, asr
  <2>3. QED
    BY <2>1, <2>2, StillServed DEF fields, runs, asr, history, Pc
<1>2. QED
  BY <1>1, ClientServes, TranscriptsServe, StartingServes, RunsServe DEF Next

-----------------------------------------------------------------------------
(* The invariant and what follows from it                                   *)

LEMMA InitInvariant ==
    ASSUME ChatAssumption, Init
    PROVE  IInv
<1>1. \A p \in Handlers : at[p] = Rest
  BY DEF Init
<1>2. "client" \in Handlers /\ "sub" \in Handlers
  BY DEF Handlers
<1>3. MaxTurns \in Nat /\ MaxRuns \in Nat /\ Blocks \in Nat /\ MaxFaults \in Nat
  BY DEF ChatAssumption
<1>4. /\ \A r \in Runs : stage[r] = "none" /\ row[r] = "none" /\ ~Live(r) /\ ~Answering(r) /\ voice[r].stage = "none"
      /\ \A t \in Turns : kind[t] = "none" /\ runOf[t] = None /\ replies[t] = 0
      /\ active = Silent /\ turn = None /\ ~committed /\ runTask = None
      /\ buffer = {} /\ finals = <<>> /\ cut = {} /\ misheard = {}
  BY DEF Init, Live, Answering
<1>5. \A p \in Handlers : at[p].pc = "idle" /\ at[p].turn = None
  BY <1>1, RestFacts
<1>6. TypeOK
  <2>1. \A r \in Runs : [stage |-> "none", block |-> 0] \in Voices
    BY <1>3 DEF Voices
  <2>2. "none" \in RunStages /\ "none" \in Rows /\ "ready" \in States
    BY DEF RunStages, Rows, States
  <2>3. at \in [Handlers -> Awaits]
    BY RestFacts DEF Init
  <2>4. voice \in [Runs -> Voices]
    BY <2>1 DEF Init
  <2>5. finals \in Seq(SUBSET Turns) /\ buffer \in SUBSET Turns
    BY <1>4
  <2>6. faults \in 0 .. MaxFaults /\ replies \in [Turns -> Nat]
    BY <1>3 DEF Init
  <2>7. QED
    BY <2>2, <2>3, <2>4, <2>5, <2>6 DEF Init, TypeOK
<1>7. InOrder
  <2>1. {t \in Turns : kind[t] # "none"} = 1 .. 0 /\ {r \in Runs : row[r] # "none"} = 1 .. 0
    BY <1>4
  <2>2. 0 \in 0 .. MaxTurns /\ 0 \in 0 .. MaxRuns
    BY <1>3
  <2>3. None \notin Turns
    BY Missing
  <2>4. QED
    BY <1>4, <1>5, <2>1, <2>2, <2>3 DEF InOrder
<1>8. RoomToSpeak /\ OneTurnEach /\ OpenTurn
  BY <1>2, <1>4, <1>5 DEF RoomToSpeak, OneTurnEach, OpenTurn, Pc, Interrupting
<1>9. OwnTurn /\ SpeaksForARun
  BY <1>4 DEF Init, OwnTurn, SpeaksForARun
<1>10. AnsweredOnce
  BY <1>4 DEF AnsweredOnce
<1>11. Orderly
  BY <1>2, <1>4, <1>5 DEF Orderly, Opening, Pc, NoRun
<1>12. OwnWords /\ TranscriptReachesItsTurn
  BY <1>2, <1>4, <1>5 DEF OwnWords, TranscriptReachesItsTurn
<1>13. OwnId /\ Served
  BY <1>4 DEF Init, OwnId, Served, NobodyIsBusy, Recording, TurnIsServed, IsAudio
<1>14. QED
  BY <1>6, <1>7, <1>8, <1>9, <1>10, <1>11, <1>12, <1>13 DEF IInv

LEMMA InvariantStep ==
    ASSUME ChatAssumption, IInv, [Next]_vars
    PROVE  IInv'
<1>1. /\ TypeOK /\ InOrder /\ RoomToSpeak /\ OneTurnEach /\ OpenTurn /\ OwnTurn /\ SpeaksForARun
      /\ AnsweredOnce /\ Orderly /\ OwnWords /\ TranscriptReachesItsTurn /\ OwnId /\ Served
  BY DEF IInv
<1>2. TypeOK'
  BY <1>1, TypeStep
<1>3. InOrder' /\ RoomToSpeak' /\ OneTurnEach'
  BY <1>1, InOrderStep, RoomStep, OneTurnStep
<1>4. OpenTurn' /\ OwnTurn'
  BY <1>1, OpenTurnStep, OwnTurnStep
<1>5. SpeaksForARun' /\ AnsweredOnce'
  BY <1>1, SpeechStep, AnsweredStep
<1>6. Orderly' /\ OwnWords' /\ TranscriptReachesItsTurn'
  BY <1>1, OrderlyStep, OwnWordsStep, TranscriptStep
<1>7. OwnId' /\ Served'
  BY <1>1, OwnIdStep, ServedStep
<1>8. QED
  BY <1>2, <1>3, <1>4, <1>5, <1>6, <1>7 DEF IInv

\* In every behaviour of a session turns are numbered as they come and at most one is
\* open, a run that has not lost its turn is the task of that turn, a voice speaks for a
\* run under way or for one that an interrupt ended without it, a busy session is served
\* unless an accident has been noted, and, while nothing was cut short, turns, transcripts
\* and runs do not overlap.
THEOREM InductiveInvariant == Spec => []IInv
<1>1. ChatAssumption /\ Init => IInv
  BY InitInvariant
<1>2. ChatAssumption /\ IInv /\ [Next]_vars => IInv'
  BY InvariantStep
<1>3. QED
  BY <1>1, <1>2, ChatAssumption, PTL DEF Spec

\* The fields of SessionRuntime, the rows of the runs, the messages of the audio service
\* and the events only take the values the model names.
THEOREM TypeCorrect == Spec => []TypeOK
<1>1. IInv => TypeOK
  BY DEF IInv
<1>2. QED
  BY <1>1, InductiveInvariant, PTL

\* A session that is ready, with nobody in the middle of a handler, has no open turn, no
\* commit and no task but one that lost its turn; one that is busy has a turn that somebody
\* answers or ends, whatever order messages, events, runs and interrupts came in, unless the
\* audio service did not answer a commit, a run or command without its turn changed the
\* state, or a voice that outlived teardown() or drain() took fail_run or complete_run with it.
THEOREM ReadyOrServedHolds == Spec => []ReadyOrServed
<1>1. IInv => ReadyOrServed
  <2> SUFFICES ASSUME IInv PROVE ReadyOrServed
    OBVIOUS
  <2>1. ASSUME at["client"] = Rest PROVE ~Pc("client", "create_failed")
    BY <2>1, RestFacts DEF Pc
  <2>2. state = "ready" /\ at["client"] = Rest /\ at["sub"] = Rest
          => turn = None /\ ~committed /\ (runTask = None \/ runTask \in strays)
    BY <2>1 DEF IInv, OpenTurn
  <2>3. ASSUME state \notin AtRest, ~EndInSight, accidents = {}
        PROVE  /\ turn # None
               /\ \/ finals # <<>> \/ at["sub"].pc \in {"control", "text", "empty"}
                  \/ runOf[turn] # None /\ Answers(runOf[turn])
    BY <2>3 DEF IInv, Served, NobodyIsBusy, TurnIsServed, AtRest
  <2>4. QED
    BY <2>2, <2>3 DEF ReadyOrServed
<1>2. QED
  BY <1>1, InductiveInvariant, PTL

\* complete_run and the interrupt send one message_completed for a turn between them,
\* unless the two crossed each other or a run has lost its turn.
THEOREM RepliedOnceHolds == Spec => []RepliedOnce
<1>1. IInv => RepliedOnce
  BY DEF IInv, AnsweredOnce, RepliedOnce
<1>2. QED
  BY <1>1, InductiveInvariant, PTL

\* handle_final stores a transcript as the message of another turn than the one it was
\* spoken in only after that one, or an earlier one, was interrupted or aborted.
THEOREM TranscriptReachesItsTurnHolds == Spec => []TranscriptReachesItsTurn
<1>1. IInv => TranscriptReachesItsTurn
  BY DEF IInv
<1>2. QED
  BY <1>1, InductiveInvariant, PTL

\* _active_tts_request_id names a request of a run under way, or one whose consumer was
\* cancelled in the middle of a send, or one of a run that an interrupt ended between its
\* crew's answer and the end of its voice queue: those runs have no teardown().
THEOREM QuietAfterTheRunHolds == Spec => []QuietAfterTheRun
<1>1. ASSUME ChatAssumption, IInv, active # Silent
      PROVE  Live(active[1]) \/ voice[active[1]].stage = "cut" \/ active[1] \in orphans
  <2>1. active[1] \in Runs /\ voice[active[1]].stage \in {"asking", "waiting", "cut"}
    BY <1>1, Missing DEF IInv, TypeOK, SpeaksForARun
  <2>2. QED
    BY <1>1, <2>1 DEF IInv, SpeaksForARun, Speaking, Live
<1>2. ChatAssumption /\ IInv => QuietAfterTheRun
  BY <1>1 DEF QuietAfterTheRun
<1>3. QED
  BY <1>2, ChatAssumption, InductiveInvariant, PTL

\* The row of a run is written by the run of that turn, by one that has lost its turn, or
\* by a create that failed.
Outcomes ==
    \A r \in Runs :
          row'[r] # row[r] /\ row'[r] \in {"completed", "failed"}
            => \/ \E q \in Runs : stage'[q] # stage[q] /\ (q \in strays \/ of[q] = of[r])
               \/ \E p \in Handlers : Pc(p, "create_failed")

LEMMA OutcomeStep ==
    ASSUME ChatAssumption, IInv, [Next]_vars
    PROVE  Outcomes
<1>1. /\ TypeOK /\ InOrder /\ OneTurnEach /\ OwnTurn
      /\ row \in [Runs -> Rows] /\ runOf \in [Turns -> Runs \cup {None}] /\ of \in [Runs -> Turns \cup {None}]
      /\ stage \in [Runs -> RunStages] /\ turn \in Turns \cup {None}
  BY DEF IInv, TypeOK
<1>2. \A t \in Turns : runOf[t] # None => runOf[t] \in Runs /\ of[runOf[t]] = t
  BY <1>1 DEF OneTurnEach
<1>3. CASE UNCHANGED row
  BY <1>3 DEF Outcomes
<1>4. ASSUME NEW q \in Runs, NEW t \in Turns, runOf[t] # None, q \in strays \/ of[q] = t,
             stage'[q] # stage[q], NEW s, row' = [row EXCEPT ![runOf[t]] = s]
      PROVE  Outcomes
  BY <1>1, <1>2, <1>4 DEF Outcomes
<1>5. CASE UserMessage \/ FinalStarts
  <2>1. row' = row \/ (NextRun \in Runs /\ row' = [row EXCEPT ![NextRun] = "reasoning"])
    BY <1>5 DEF UserMessage, FinalStarts, StartRun, runs
  <2>2. QED
    BY <1>1, <2>1 DEF Outcomes
<1>6. CASE InterruptEnds
  <2>1. row' = row \/ (\E x : row' = [row EXCEPT ![x] = "interrupted"])
    BY <1>6 DEF InterruptEnds
  <2>2. QED
    BY <1>1, <2>1 DEF Outcomes
<1>7. CASE Client /\ ~UserMessage /\ ~InterruptEnds
  <2>1. UNCHANGED row
    BY <1>7 DEF Client, ListenForBargeIn, NoSpeech, SpeechStarts, SpeechAfterInterrupt, Flush,
       Abort, Commit, Committed, ChunkLost, Interrupt, BargeIn, Execute, InterruptRun, InterruptPublish, runs
  <2>2. QED
    BY <1>3, <2>1
<1>8. CASE Subscriber /\ ~FinalStarts
  <2>1. UNCHANGED row
    BY <1>8 DEF Subscriber, Hears, Final, FinalCloses, SpeechEnds, runs
  <2>2. QED
    BY <1>3, <2>1
<1>9. ASSUME NEW p \in Handlers, Starting(p) PROVE Outcomes
  <2>1. CASE CreateFailed(p)
    BY <2>1 DEF CreateFailed, Outcomes
  <2>2. CASE StartTask(p) \/ GiveUpTurn(p)
    BY <1>3, <2>2 DEF StartTask, GiveUpTurn, runs
  <2>3. QED
    BY <1>9, <2>1, <2>2 DEF Starting
<1>10. ASSUME NEW q \in Runs, AnswerKept(q) PROVE Outcomes
  <2>1. stage[q] \in {"answered", "telling"}
    BY <1>10 DEF AnswerKept
  <2>2. of[q] \in Turns /\ runOf[of[q]] # None
    BY <1>1, <2>1 DEF OneTurnEach
  <2>3. stage' = [stage EXCEPT ![q] = "drain"] /\ row' = [row EXCEPT ![runOf[of[q]]] = "completed"]
    BY <1>10 DEF AnswerKept
  <2>4. stage'[q] # stage[q]
    BY <1>1, <2>1, <2>3
  <2>5. QED
    BY <1>4, <2>2, <2>3, <2>4
<1>11. ASSUME NEW q \in Runs, RecordCompleted(q) PROVE Outcomes
  <2>1. /\ stage[q] = "emit" /\ stage' = [stage EXCEPT ![q] = "complete"]
        /\ row' = row \/ (runOf[holds[q]] # None /\ row' = [row EXCEPT ![runOf[holds[q]]] = "completed"])
    BY <1>11 DEF RecordCompleted
  <2>2. holds[q] \in Turns /\ (q \in strays \/ of[q] = holds[q])
    BY <1>1, <2>1 DEF OwnTurn, Answering
  <2>3. stage'[q] # stage[q]
    BY <1>1, <2>1
  <2>4. QED
    BY <1>3, <1>4, <2>1, <2>2, <2>3
<1>12. ASSUME NEW q \in Runs, RecordFailed(q) PROVE Outcomes
  <2>1. /\ stage[q] = "error" /\ stage' = [stage EXCEPT ![q] = "failing"]
        /\ row' = row \/ (turn # None /\ runOf[turn] # None /\ row' = [row EXCEPT ![runOf[turn]] = "failed"])
    BY <1>12 DEF RecordFailed, RowFailed
  <2>2. q \in strays \/ of[q] = turn
    BY <1>1, <2>1 DEF OwnTurn, Live
  <2>3. stage'[q] # stage[q]
    BY <1>1, <2>1
  <2>4. QED
    BY <1>1, <1>3, <1>4, <2>1, <2>2, <2>3
<1>13. ASSUME NEW q \in Runs, Run(q) \/ Voice(q), ~AnswerKept(q), ~RecordCompleted(q), ~RecordFailed(q)
       PROVE  UNCHANGED row
  BY <1>13 DEF Run, Begin, CommandEnds, CrewEvent, CrewAnswers, CrewFails, AnswerDropped, AnswerTold, TornDown, Complete, RunEnds,
     Voice, Ask, Asked, BlockFails, VoiceEnds, VoiceTimesOut, runs
<1>14. CASE UNCHANGED vars
  BY <1>3, <1>14 DEF vars, runs
<1>15. QED
  BY <1>3, <1>5, <1>6, <1>7, <1>8, <1>9, <1>10, <1>11, <1>12, <1>13, <1>14 DEF Next

\* A run is recorded as completed or failed by a run of its own turn, by one that has lost
\* its turn, or when a create has failed: complete_run and fail_run, which write the row of
\* whatever turn is open, find their own one open.
THEOREM OwnOutcomeHolds == Spec => OwnOutcome
<1>1. ChatAssumption /\ IInv /\ [Next]_vars => [Outcomes]_vars
  BY OutcomeStep
<1>2. OwnOutcome <=> [][Outcomes]_vars
  BY DEF OwnOutcome, Outcomes
<1>3. QED
  BY <1>1, <1>2, ChatAssumption, InductiveInvariant, PTL DEF Spec
=============================================================================
