----------------------------- MODULE ChatSession -----------------------------
(***************************************************************************)
(* One connection of /ws/chat (backend/services/chat/session): the turns   *)
(* of SessionRuntime, the run that answers a turn (master_runtime.py) and  *)
(* the voice that reads the answer aloud (voice_reply.py,                  *)
(* inference_session.py).                                                  *)
(*                                                                         *)
(* Three kinds of coroutines share the runtime's fields without a lock:    *)
(* "client", which handles one message of the browser after the other,     *)
(* "sub", which handles the events of the audio service, and one task per  *)
(* run with its voice consumer.  An action is the code between two awaits; *)
(* awaits with nothing in between that another coroutine reads are one.    *)
(*                                                                         *)
(* REASONING, TOOL_RUNNING, STREAMING_OUTPUT and WAITING_TASK are always   *)
(* allowed and refused together: they are "busy".  Closing the session and *)
(* changes of the service topology are left out.                           *)
(***************************************************************************)
EXTENDS Integers, Sequences, FiniteSets

CONSTANTS MaxTurns,   \* bound: turns
          MaxRuns,    \* bound: runs
          Blocks,     \* pieces of speech of one answer
          MaxFaults   \* bound: failed creates, sends and transcripts

ASSUME ChatAssumption ==
    /\ {MaxTurns, MaxRuns, Blocks} \subseteq Nat \ {0}
    /\ MaxFaults \in Nat

VARIABLES state,      \* SessionRuntime.state
          turn,       \* current_turn
          kind,       \* input mode of a turn, "none" before it is created
          barge,      \* turns with barge_in
          runOf,      \* run_id of a turn
          committed,  \* _audio_turn_committed
          runTask,    \* _run_task
          cutting,    \* _interrupt_requested
          at,         \* what "client" and "sub" are awaiting, with their locals
          stage,      \* a run's task
          of,         \* the turn a run was started for
          id,         \* the run_id it found on that turn when it began
          holds,      \* the turn complete_run has read
          row,        \* agent_runs.status
          buffer,     \* turns whose audio the ASR session holds
          finals,     \* transcripts on their way: the turns they were spoken in
          voice,      \* consumer of a VoiceReplyStream: stage and block
          active,     \* _active_tts_request_id
          misheard,   \* turns with a user message that was spoken in another turn
          replies,    \* message_completed events of a turn
          faults,
          cut,        \* history: turns that an interrupt or an ASR failure dropped
          strays,     \* history: runs whose turn was finalized under them
          overlapped, \* history: turns completed while being interrupted
          orphans,    \* history: runs an interrupt ended without their voice
          accidents   \* history: what can leave a session busy for ever

fields  == <<state, turn, runTask, committed>>
turns   == <<kind, barge, misheard>>
runs    == <<stage, of, id, holds, row, runOf>>
asr     == <<buffer, finals>>
tts     == <<voice, active>>
history == <<cut, strays, overlapped, orphans, accidents>>
vars == <<fields, turns, runs, cutting, at, asr, tts, replies, faults, history>>

Turns    == 1 .. MaxTurns
Runs     == 1 .. MaxRuns
Requests == Runs \X (1 .. Blocks)
None     == 0
Silent   == <<0, 0>>

States == {"ready", "buffering", "busy", "completed", "interrupted", "failed",
           "closed"}
InterruptAllowed == {"buffering", "busy"}

Rest == [pc |-> "idle", turn |-> None, run |-> None, request |-> Silent, speech |-> FALSE]
Stops == {"idle", "starting", "create_failed", "failing", "vad", "flush", "commit",
          "abort", "control", "text", "empty", "cancel", "run_end", "publish", "ready", "closed"}
Interrupting == {"cancel", "run_end", "publish"}

RunStages == {"none", "created", "command", "working", "answered", "telling", "stopping",
              "giving_up", "drain", "emit", "complete", "error", "failing", "done"}
Live(r) == r \in Runs /\ stage[r] \notin {"none", "done"}

Handlers == {"client", "sub"}

Pc(p, s) == at[p].pc = s
Goto(p, s) == at' = [at EXCEPT ![p].pc = s]
Return(p)  == at' = [at EXCEPT ![p] = Rest]

IsAudio(t) == t # None /\ kind[t] = "audio"
NextTurn == Cardinality({t \in Turns : kind[t] # "none"}) + 1
NextRun  == Cardinality({r \in Runs : row[r] # "none"}) + 1

Init ==
    /\ state = "ready" /\ turn = None /\ committed = FALSE /\ runTask = None
    /\ kind = [t \in Turns |-> "none"] /\ barge = {} /\ runOf = [t \in Turns |-> None]
    /\ cutting = FALSE /\ at = [p \in Handlers |-> Rest]
    /\ stage = [r \in Runs |-> "none"] /\ row = [r \in Runs |-> "none"]
    /\ of = [r \in Runs |-> None] /\ id = [r \in Runs |-> None] /\ holds = [r \in Runs |-> None]
    /\ buffer = {} /\ finals = <<>>
    /\ voice = [r \in Runs |-> [stage |-> "none", block |-> 0]]
    /\ active = Silent
    /\ misheard = {} /\ replies = [t \in Turns |-> 0]
    /\ faults = 0
    /\ cut = {} /\ strays = {} /\ overlapped = {} /\ orphans = {} /\ accidents = {}

-----------------------------------------------------------------------------
(* What the handlers share                                                  *)

\* Seeded fault: the commit of the last turn is not taken back.
FinalizeKeepsCommit(r) ==
    /\ turn' = None /\ runTask' = None /\ UNCHANGED committed
    /\ strays' = strays \cup {q \in {runTask} : Live(q) /\ q # r}

\* Seeded fault: current_turn stays.
FinalizeKeepsTurn(r) ==
    /\ runTask' = None /\ committed' = FALSE /\ UNCHANGED turn
    /\ strays' = strays \cup {q \in {runTask} : Live(q) /\ q # r}

\* _finalize_turn: the fields are emptied, a task in _run_task goes on.  r is
\* the run that calls it, None for the others.
Finalize(r) ==
    /\ turn' = None /\ runTask' = None /\ committed' = FALSE
    /\ strays' = strays \cup {q \in {runTask} : Live(q) /\ q # r}

FinalizeToReady(r) == Finalize(r) /\ state' = "ready"

\* _start_run_for_current_turn up to its first await: the row, the run_id and the
\* state, or the error event of a create that failed.
StartRun(p, t) ==
    /\ cutting' = FALSE
    /\ \/ /\ NextRun \in Runs
          /\ row' = [row EXCEPT ![NextRun] = "reasoning"]
          /\ of' = [of EXCEPT ![NextRun] = t]
          /\ runOf' = [runOf EXCEPT ![t] = NextRun]
          /\ state' = "busy"
          /\ at' = [at EXCEPT ![p] = [Rest EXCEPT !.pc = "starting", !.run = NextRun]]
          /\ UNCHANGED faults
       \/ /\ faults < MaxFaults /\ faults' = faults + 1
          /\ at' = [at EXCEPT ![p] = [Rest EXCEPT !.pc = "create_failed"]]
          /\ UNCHANGED <<row, of, runOf, state>>
    /\ UNCHANGED <<stage, id, holds>>

\* The turn r was made for is still open.
Owns(r) == turn # None /\ runOf[turn] = runOf[of[r]]

\* ... and its end: the task.
StartTask(p) ==
    /\ Pc(p, "starting")
    /\ LET r == at[p].run IN
         /\ stage' = [stage EXCEPT ![r] = "created"]
         /\ runTask' = r
         /\ strays' = strays \cup {q \in {runTask} : Live(q)} \cup {q \in {r} : ~Owns(q)}
    /\ Return(p)
    /\ UNCHANGED <<state, turn, committed, turns, of, id, holds, row, runOf, cutting, asr, tts,
                   replies, faults, cut, overlapped, orphans, accidents>>

\* _fail_run_unchecked: the run of the turn that is current now.
RowFailed == row' = IF turn # None /\ runOf[turn] # None
                    THEN [row EXCEPT ![runOf[turn]] = "failed"] ELSE row

CreateFailed(p) ==
    /\ Pc(p, "create_failed")
    /\ RowFailed
    /\ state' = "failed"
    /\ Goto(p, "failing")
    /\ UNCHANGED <<turn, runTask, committed, turns, stage, of, id, holds, runOf, cutting, asr,
                   tts, replies, faults, history>>

GiveUpTurn(p) ==
    /\ Pc(p, "failing")
    /\ FinalizeToReady(None)
    /\ Return(p)
    /\ UNCHANGED <<turns, runs, cutting, asr, tts, replies, faults, cut, overlapped, orphans, accidents>>

-----------------------------------------------------------------------------
(* "client": user_message, audio_chunk, session_commit                      *)

NewTurn(t, k, b) ==
    /\ turn' = t
    /\ kind' = [kind EXCEPT ![t] = k]
    /\ barge' = IF b THEN barge \cup {t} ELSE barge

\* Seeded fault: a message is taken whatever the state.
UserMessageWhenBusy ==
    /\ Pc("client", "idle") /\ state \in {"ready", "busy"} /\ NextTurn \in Turns
    /\ NewTurn(NextTurn, "text", FALSE)
    /\ StartRun("client", NextTurn)
    /\ UNCHANGED <<runTask, committed, misheard, asr, tts, replies, history>>

\* While a turn is recorded its text only joins the fragments of the assembler.
UserMessage ==
    /\ Pc("client", "idle") /\ state = "ready" /\ NextTurn \in Turns
    /\ NewTurn(NextTurn, "text", FALSE)
    /\ StartRun("client", NextTurn)
    /\ UNCHANGED <<runTask, committed, misheard, asr, tts, replies, history>>

\* An audio chunk of a session that is busy with a run: push() of the voice detector.
ListenForBargeIn ==
    /\ Pc("client", "idle") /\ state = "busy" /\ NextTurn \in Turns
    /\ turn # None /\ runOf[turn] # None
    /\ at' = [at EXCEPT !["client"] = [Rest EXCEPT !.pc = "vad"]]
    /\ UNCHANGED <<fields, turns, runs, cutting, asr, tts, replies, faults, history>>

NoSpeech ==
    /\ Pc("client", "vad")
    /\ Return("client")
    /\ UNCHANGED <<fields, turns, runs, cutting, asr, tts, replies, faults, history>>

\* begin_audio_turn, then the state and the frames of the pre-roll.
BeginAudioTurn(b) ==
    /\ NewTurn(NextTurn, "audio", b)
    /\ committed' = FALSE
    /\ state' = "buffering"
    /\ at' = [at EXCEPT !["client"] = [Rest EXCEPT !.pc = "flush", !.turn = NextTurn]]

\* Seeded fault: speech is recorded while a transcript is awaited.
SpeechStartsWhenBusy ==
    /\ Pc("client", "idle") /\ state \in {"ready", "busy"} /\ NextTurn \in Turns
    /\ \E b \in BOOLEAN :
         /\ b => \E r \in Runs : voice[r].block > 0
         /\ BeginAudioTurn(b)
    /\ UNCHANGED <<runTask, misheard, runs, cutting, asr, tts, replies, faults, history>>

\* speech_start of a ready session.  It counts as barge-in while the last answer may
\* still be playing.
SpeechStarts ==
    /\ Pc("client", "idle") /\ state = "ready" /\ NextTurn \in Turns
    /\ \E b \in BOOLEAN :
         /\ b => \E r \in Runs : voice[r].block > 0
         /\ BeginAudioTurn(b)
    /\ UNCHANGED <<runTask, misheard, runs, cutting, asr, tts, replies, faults, history>>

SpeechAfterInterrupt ==
    /\ Pc("client", "ready")
    /\ BeginAudioTurn(TRUE)
    /\ UNCHANGED <<runTask, misheard, runs, cutting, asr, tts, replies, faults, history>>

\* _abort_audio_turn_unavailable: a chunk or the commit was not sent.
Unavailable ==
    /\ faults < MaxFaults /\ faults' = faults + 1
    /\ Goto("client", "abort")

Flush ==
    /\ Pc("client", "flush")
    /\ \/ /\ buffer' = buffer \cup {at["client"].turn}
          /\ Return("client")
          /\ UNCHANGED faults
       \/ Unavailable /\ UNCHANGED buffer
    /\ UNCHANGED <<fields, turns, runs, cutting, finals, tts, replies, history>>

Abort ==
    /\ Pc("client", "abort")
    /\ FinalizeToReady(None)
    /\ cut' = cut \cup ({turn} \ {None})
    /\ Return("client")
    /\ UNCHANGED <<turns, runs, cutting, asr, tts, replies, faults, overlapped, orphans, accidents>>

\* session.asr.commit at the audio service: it answers when it holds audio, unless its
\* streaming session cannot be made.
AsrCommit ==
    /\ buffer' = {}
    /\ \/ buffer = {} /\ UNCHANGED <<finals, faults, accidents>>
       \/ buffer # {} /\ finals' = Append(finals, buffer) /\ UNCHANGED <<faults, accidents>>
       \/ /\ buffer # {} /\ faults < MaxFaults
          /\ faults' = faults + 1
          /\ accidents' = accidents \cup {"silent_asr"}
          /\ UNCHANGED finals

\* _commit_audio, on speech_end or session_commit.
Commit ==
    /\ Pc("client", "idle") /\ state = "buffering" /\ IsAudio(turn) /\ ~committed
    /\ committed' = TRUE
    /\ \/ /\ AsrCommit
          /\ at' = [at EXCEPT !["client"] = [Rest EXCEPT !.pc = "commit", !.turn = turn]]
       \/ Unavailable /\ UNCHANGED <<asr, accidents>>
    /\ UNCHANGED <<state, turn, runTask, turns, runs, cutting, tts, replies,
                   cut, strays, overlapped, orphans>>

\* The send is done: STREAMING_OUTPUT.  When a transcript has closed the turn meanwhile,
\* the log line that names it raises and the connection ends.
Committed ==
    /\ Pc("client", "commit")
    /\ IF turn = None
       THEN state' = "closed" /\ at' = [p \in Handlers |-> [Rest EXCEPT !.pc = "closed"]]
       ELSE state' = "busy" /\ Return("client")
    /\ UNCHANGED <<turn, runTask, committed, turns, runs, cutting, asr, tts, replies, faults,
                   history>>

\* A later chunk of the recording is not sent.
ChunkLost ==
    /\ Pc("client", "idle") /\ state = "buffering" /\ IsAudio(turn) /\ ~committed
    /\ Unavailable
    /\ UNCHANGED <<fields, turns, runs, cutting, asr, tts, replies, history>>

-----------------------------------------------------------------------------
(* "client": InterruptCoordinator.execute, on interrupt or on barge-in      *)

\* execute up to its first await, which sends the tts_cancel.
Execute(barging) ==
    /\ cutting' = TRUE
    /\ at' = [at EXCEPT !["client"] = [Rest EXCEPT !.pc = "cancel", !.turn = turn,
                                       !.request = active, !.speech = barging]]
    /\ cut' = cut \cup ({turn} \ {None})
    /\ overlapped' = overlapped \cup {holds[r] : r \in {q \in Runs : stage[q] \in {"emit", "complete"}}}
    /\ UNCHANGED <<fields, turns, runs, asr, tts, replies, faults, strays, orphans,
                   accidents>>

Interrupt == Pc("client", "idle") /\ state \in InterruptAllowed /\ Execute(FALSE)

BargeIn == Pc("client", "vad") /\ Execute(TRUE)

\* The active request is forgotten if it is one of these.
Quieten(Q) == active' = IF active \in Q THEN Silent ELSE active

\* The request r's consumer waits for in await_tts_finish.
Awaited(r) == {q \in {<<r, voice[r].block>>} : voice[r].stage = "waiting"}

\* A consumer that is cancelled.  In the middle of a send its request stays the active one.
CancelConsumer(r) ==
    voice' = [voice EXCEPT ![r].stage = CASE @ = "asking" -> "cut"
                                          [] @ \in {"none", "cut"} -> @
                                          [] OTHER -> "gone"]

\* The awaits of run() that are wait_for: one whose future is done when the cancel comes
\* hands out its result, and the cancel is lost.
CancelIsLost(r) == \/ stage[r] \in {"answered", "giving_up"}
                   \/ stage[r] \in {"stopping", "drain"} /\ voice[r].stage = "gone"

\* tts_cancel is sent; the transcript of an audio turn is asked for and the run's task is
\* cancelled.  A crew that works first lets its voice speak for up to 2 s.  A run that
\* waits for the callbacks of its crew, or tells an answer that was not streamed, ends
\* outside of any except, and its voice goes on; a task that was not begun, or hangs in
\* another await, ends with its consumer.
InterruptRun ==
    /\ Pc("client", "cancel")
    /\ IF IsAudio(at["client"].turn) THEN AsrCommit ELSE UNCHANGED <<asr, faults, accidents>>
    /\ at' = [at EXCEPT !["client"].pc = "run_end", !["client"].run = runTask]
    /\ LET r == runTask
           request == {at["client"].request}
       IN \/ /\ Live(r) => CancelIsLost(r)
             /\ Quieten(request)
             /\ UNCHANGED <<stage, voice, orphans>>
          \/ /\ Live(r) /\ stage[r] = "working"
             /\ stage' = [stage EXCEPT ![r] = "stopping"]
             /\ Quieten(request)
             /\ UNCHANGED <<voice, orphans>>
          \/ /\ Live(r) /\ stage[r] \in {"answered", "telling"}
             /\ stage' = [stage EXCEPT ![r] = "done"]
             /\ orphans' = orphans \cup {r}
             /\ Quieten(request)
             /\ UNCHANGED voice
          \/ /\ Live(r) /\ stage[r] \notin {"working", "answered", "telling"}
             /\ stage' = [stage EXCEPT ![r] = "done"]
             /\ CancelConsumer(r)
             /\ Quieten(request \cup Awaited(r))
             /\ UNCHANGED orphans
    /\ UNCHANGED <<fields, turns, of, id, holds, row, runOf, cutting, replies,
                   cut, strays, overlapped>>

\* INTERRUPTED, and the partial answer of the turn read at the start.
InterruptPublish ==
    /\ Pc("client", "run_end") /\ ~Live(at["client"].run)
    /\ state' = "interrupted"
    /\ LET t == at["client"].turn IN
         replies' = IF t = None THEN replies ELSE [replies EXCEPT ![t] = @ + 1]
    /\ Goto("client", "publish")
    /\ UNCHANGED <<turn, runTask, committed, turns, runs, cutting, asr, tts, faults, history>>

\* Seeded fault: the row gets the status of a task.
InterruptEndsAsCancelled ==
    /\ Pc("client", "publish")
    /\ LET t == at["client"].turn IN
         row' = IF t = None \/ runOf[t] = None THEN row
                ELSE [row EXCEPT ![runOf[t]] = "cancelled"]
    /\ FinalizeToReady(None)
    /\ IF at["client"].speech THEN Goto("client", "ready") ELSE Return("client")
    /\ UNCHANGED <<turns, stage, of, id, holds, runOf, cutting, asr, tts, replies, faults,
                   cut, overlapped, orphans, accidents>>

\* The row, and the end of the turn that is current now.
InterruptEnds ==
    /\ Pc("client", "publish")
    /\ LET t == at["client"].turn IN
         row' = IF t = None \/ runOf[t] = None THEN row
                ELSE [row EXCEPT ![runOf[t]] = "interrupted"]
    /\ FinalizeToReady(None)
    /\ IF at["client"].speech THEN Goto("client", "ready") ELSE Return("client")
    /\ UNCHANGED <<turns, stage, of, id, holds, runOf, cutting, asr, tts, replies, faults,
                   cut, overlapped, orphans, accidents>>

-----------------------------------------------------------------------------
(* "sub": session.transcript.final and the events of the voice              *)

\* handle_final up to its first event.  The event names no turn: the transcript is taken
\* for the turn that is current now.
Final(text) ==
    LET mine == turn # None /\ committed
        goes == IF text = "control" /\ mine /\ turn \in barge THEN "control"
                ELSE IF text # "noise" THEN "text" ELSE "empty"
    IN /\ Pc("sub", "idle") /\ finals # <<>>
       /\ goes = "text" /\ mine => NextRun \in Runs
       /\ IF goes = "empty" /\ ~mine
          THEN FinalizeToReady(None) /\ finals' = Tail(finals) /\ UNCHANGED at
          ELSE /\ at' = [at EXCEPT !["sub"] = [Rest EXCEPT !.pc = goes, !.turn = turn,
                                               !.speech = mine]]
               /\ UNCHANGED <<fields, strays, finals>>
       /\ UNCHANGED <<turns, runs, cutting, buffer, tts, replies, faults, cut, overlapped, orphans,
                      accidents>>

\* The user message of the turn.
Persist(t) == misheard' = IF t # None /\ Head(finals) # {t} THEN misheard \cup {t} ELSE misheard

\* "stop", said into an answer, is kept and answered by nothing; a transcript of no turn
\* that was committed, or without words, closes whatever is open.
FinalCloses ==
    /\ \/ Pc("sub", "control") /\ Persist(at["sub"].turn)
       \/ Pc("sub", "text") /\ ~at["sub"].speech /\ Persist(at["sub"].turn)
       \/ Pc("sub", "empty") /\ UNCHANGED misheard
    /\ finals' = Tail(finals)
    /\ FinalizeToReady(None)
    /\ Return("sub")
    /\ UNCHANGED <<kind, barge, runs, cutting, buffer, tts, replies, faults, cut, overlapped, orphans,
                   accidents>>

\* The words of a committed turn start a run of the turn that is current now.
FinalStarts ==
    /\ Pc("sub", "text") /\ at["sub"].speech
    /\ Persist(at["sub"].turn)
    /\ finals' = Tail(finals)
    /\ IF turn = None
       THEN Return("sub") /\ UNCHANGED <<state, runs, cutting, faults>>
       ELSE StartRun("sub", turn)
    /\ UNCHANGED <<turn, runTask, committed, kind, barge, buffer, tts, replies, history>>

\* session.audio.end, and await_tts_finish in the consumer; one that nobody waits for
\* changes nothing.
SpeechEnds(r) ==
    /\ Pc("sub", "idle") /\ voice[r].stage = "waiting"
    /\ voice' = [voice EXCEPT ![r].stage = "idle"]
    /\ Quieten(Awaited(r))
    /\ UNCHANGED <<fields, turns, runs, cutting, at, asr, replies, faults, history>>

-----------------------------------------------------------------------------
(* A run: master_runtime.run and complete_run                               *)

\* _run_is_current.
Current(r) == turn # None /\ runOf[turn] = id[r]

\* The agent is loaded or not; enter_reasoning asks for no turn.  A slash command has
\* neither an agent nor a voice.
Begin(r) ==
    /\ stage[r] = "created"
    /\ \/ /\ stage' = [stage EXCEPT ![r] = "working"]
          /\ id' = [id EXCEPT ![r] = runOf[of[r]]]
          /\ state' = "busy"
          /\ voice' = [voice EXCEPT ![r].stage = IF IsAudio(of[r]) THEN "idle" ELSE "none"]
          /\ accidents' = IF Owns(r) THEN accidents ELSE accidents \cup {"late_start"}
          /\ UNCHANGED faults
       \/ /\ faults < MaxFaults /\ faults' = faults + 1
          /\ stage' = [stage EXCEPT ![r] = "error"]
          /\ UNCHANGED <<state, voice, id, accidents>>
       \/ /\ stage' = [stage EXCEPT ![r] = "command"]
          /\ UNCHANGED <<state, voice, id, accidents, faults>>
    /\ UNCHANGED <<turn, runTask, committed, turns, of, holds, row, runOf, cutting, at, asr, active,
                   replies, cut, strays, overlapped, orphans>>

\* The slash command is done: STREAMING_OUTPUT, which asks for no turn either, and its
\* answer.
CommandEnds(r) ==
    /\ stage[r] = "command"
    /\ stage' = [stage EXCEPT ![r] = "drain"]
    /\ state' = "busy"
    /\ accidents' = IF Owns(r) THEN accidents ELSE accidents \cup {"late_start"}
    /\ UNCHANGED <<turn, runTask, committed, turns, of, id, holds, row, runOf, cutting, at, asr, tts,
                   replies, faults, cut, strays, overlapped, orphans>>

\* Seeded fault: the event of a task is not asked whose turn it is.
CrewEventOfAnyTurn(r) ==
    /\ id[r] # None
    /\ state # "busy"
    /\ state' = "busy"
    /\ UNCHANGED <<turn, runTask, committed, turns, runs, cutting, at, asr, tts, replies, faults,
                   history>>

\* A callback of the crew's thread, which no cancel stops: of a tool or of the model, or
\* an event of a task, see handle_task_event.
CrewEvent(r) ==
    /\ id[r] # None
    /\ Current(r) \/ (turn = of[r] /\ ~cutting)
    /\ state # "busy"
    /\ state' = "busy"
    /\ UNCHANGED <<turn, runTask, committed, turns, runs, cutting, at, asr, tts, replies, faults,
                   history>>

Quiet(r) == voice[r].stage \in {"none", "gone", "cut"}

\* The crew answered: the callbacks it has scheduled are waited for.
CrewAnswers(r) ==
    /\ stage[r] = "working"
    /\ stage' = [stage EXCEPT ![r] = "answered"]
    /\ UNCHANGED <<fields, turns, of, id, holds, row, runOf, cutting, at, asr, tts, replies, faults,
                   history>>

\* A run that is no longer current lets its voice end.
AnswerDropped(r) ==
    /\ stage[r] = "answered" /\ ~Current(r)
    /\ stage' = [stage EXCEPT ![r] = "stopping"]
    /\ UNCHANGED <<fields, turns, of, id, holds, row, runOf, cutting, at, asr, tts, replies, faults,
                   history>>

\* An answer of which nothing was streamed is told first, ...
AnswerTold(r) ==
    /\ stage[r] = "answered" /\ Current(r)
    /\ stage' = [stage EXCEPT ![r] = "telling"]
    /\ state' \in {state, "busy"}
    /\ UNCHANGED <<turn, runTask, committed, turns, of, id, holds, row, runOf, cutting, at, asr, tts,
                   replies, faults, history>>

\* ... and nobody asks again whether the run is current.
AnswerKept(r) ==
    /\ \/ stage[r] = "answered" /\ Current(r)
       \/ stage[r] = "telling"
    /\ stage' = [stage EXCEPT ![r] = "drain"]
    /\ row' = [row EXCEPT ![runOf[of[r]]] = "completed"]
    /\ UNCHANGED <<fields, turns, of, id, holds, runOf, cutting, at, asr, tts, replies, faults,
                   history>>

\* It raised or timed out; nobody asks whether the run is current.
CrewFails(r) ==
    /\ stage[r] = "working"
    /\ faults < MaxFaults /\ faults' = faults + 1
    /\ stage' = [stage EXCEPT ![r] = "giving_up"]
    /\ UNCHANGED <<fields, turns, of, id, holds, row, runOf, cutting, at, asr, tts, replies,
                   history>>

\* Seeded fault: the run does not wait for its voice.
TornDownAtOnce(r) ==
    /\ stage[r] \in {"stopping", "giving_up"}
    /\ stage' = [stage EXCEPT ![r] = IF @ = "stopping" THEN "done" ELSE "error"]
    /\ UNCHANGED <<fields, turns, of, id, holds, row, runOf, cutting, at, asr, tts, replies, faults,
                   history>>

\* teardown() is over: its voice has ended by itself.
TornDown(r) ==
    /\ stage[r] \in {"stopping", "giving_up"} /\ Quiet(r)
    /\ stage' = [stage EXCEPT ![r] = IF @ = "stopping" THEN "done" ELSE "error"]
    /\ UNCHANGED <<fields, turns, of, id, holds, row, runOf, cutting, at, asr, tts, replies, faults,
                   history>>

\* complete_run: message_completed for the turn that is current now, ...
Complete(r) ==
    /\ stage[r] = "drain" /\ Quiet(r)
    /\ IF turn = None
       THEN /\ stage' = [stage EXCEPT ![r] = "done"]
            /\ UNCHANGED <<holds, replies, overlapped>>
       ELSE /\ stage' = [stage EXCEPT ![r] = "emit"]
            /\ holds' = [holds EXCEPT ![r] = turn]
            /\ replies' = [replies EXCEPT ![turn] = @ + 1]
            /\ overlapped' = IF at["client"].pc \in Interrupting /\ at["client"].turn = turn
                             THEN overlapped \cup {turn} ELSE overlapped
    /\ UNCHANGED <<fields, turns, of, id, row, runOf, cutting, at, asr, tts, faults,
                   cut, strays, orphans, accidents>>

\* ... its row, ...
RecordCompleted(r) ==
    /\ stage[r] = "emit"
    /\ stage' = [stage EXCEPT ![r] = "complete"]
    /\ row' = IF runOf[holds[r]] = None THEN row
              ELSE [row EXCEPT ![runOf[holds[r]]] = "completed"]
    /\ state' = "completed"
    /\ UNCHANGED <<turn, runTask, committed, turns, of, id, holds, runOf, cutting, at, asr, tts,
                   replies, faults, history>>

\* fail_run: the row of the turn that is current after the error event, ...
RecordFailed(r) ==
    /\ stage[r] = "error"
    /\ stage' = [stage EXCEPT ![r] = "failing"]
    /\ RowFailed
    /\ state' = "failed"
    /\ UNCHANGED <<turn, runTask, committed, turns, of, id, holds, runOf, cutting, at, asr, tts,
                   replies, faults, history>>

\* ... and the end of both.
RunEnds(r) ==
    /\ stage[r] \in {"complete", "failing"}
    /\ stage' = [stage EXCEPT ![r] = "done"]
    /\ FinalizeToReady(r)
    /\ holds' = [holds EXCEPT ![r] = None]
    /\ UNCHANGED <<turns, of, id, row, runOf, cutting, at, asr, tts, replies, faults,
                   cut, overlapped, orphans, accidents>>

-----------------------------------------------------------------------------
(* VoiceReplyStream: one block after the other                              *)

\* tts_request: the new request is active; the one before is cancelled and its waiter
\* rejected.
Ask(r) ==
    /\ voice[r].stage = "idle" /\ voice[r].block < Blocks
    /\ active' = <<r, voice[r].block + 1>>
    /\ voice' = [p \in Runs |->
          CASE p = r -> [stage |-> "asking", block |-> voice[r].block + 1]
            [] p # r /\ active = <<p, voice[p].block>> /\ voice[p].stage = "waiting"
                 -> [voice[p] EXCEPT !.stage = "idle"]
            [] p # r /\ active = <<p, voice[p].block>> /\ voice[p].stage = "asking"
                 -> [voice[p] EXCEPT !.stage = "rejected"]
            [] OTHER -> voice[p]]
    /\ UNCHANGED <<fields, turns, runs, cutting, at, asr, replies, faults, history>>

\* The frame is on its way.
Asked(r) ==
    /\ voice[r].stage \in {"asking", "rejected"}
    /\ voice' = [voice EXCEPT ![r].stage = IF @ = "asking" THEN "waiting" ELSE "idle"]
    /\ UNCHANGED <<fields, turns, runs, cutting, at, asr, active, replies, faults, history>>

\* Not sent, or no end within the timeout: the block is skipped.
BlockFails(r) ==
    /\ voice[r].stage \in {"asking", "waiting"}
    /\ faults < MaxFaults /\ faults' = faults + 1
    /\ Quieten({<<r, voice[r].block>>})
    /\ voice' = [voice EXCEPT ![r].stage = "idle"]
    /\ UNCHANGED <<fields, turns, runs, cutting, at, asr, replies, history>>

\* It has come to the None that drain() or teardown() put after the blocks.
VoiceEnds(r) ==
    /\ voice[r].stage = "idle" /\ stage[r] \in {"stopping", "giving_up", "drain"}
    /\ voice' = [voice EXCEPT ![r].stage = "gone"]
    /\ UNCHANGED <<fields, turns, runs, cutting, at, asr, active, replies, faults, history>>

\* The 2 s of teardown() or the time of drain() are up.  wait_for has cancelled the
\* consumer, the CancelledError of its task passes every except Exception, and the run
\* ends without fail_run or complete_run: its turn stays open.
VoiceTimesOut(r) ==
    /\ stage[r] \in {"stopping", "giving_up", "drain"} /\ ~Quiet(r)
    /\ CancelConsumer(r)
    /\ Quieten(Awaited(r))
    /\ stage' = [stage EXCEPT ![r] = "done"]
    /\ accidents' = IF stage[r] # "stopping" /\ Owns(r) THEN accidents \cup {"late_voice"}
                    ELSE accidents
    /\ UNCHANGED <<fields, turns, of, id, holds, row, runOf, cutting, at, asr, replies, faults,
                   cut, strays, overlapped, orphans>>

-----------------------------------------------------------------------------
Client ==
    \/ UserMessage \/ ListenForBargeIn \/ NoSpeech \/ SpeechStarts \/ SpeechAfterInterrupt
    \/ Flush \/ Abort \/ Commit \/ Committed \/ ChunkLost
    \/ Interrupt \/ BargeIn
    \/ InterruptRun \/ InterruptPublish \/ InterruptEnds

Hears ==
    \/ \E text \in {"text", "control", "noise"} : Final(text)
    \/ FinalCloses \/ FinalStarts

Subscriber ==
    \/ Hears
    \/ \E r \in Runs : SpeechEnds(r)

Starting(p) == StartTask(p) \/ CreateFailed(p) \/ GiveUpTurn(p)

Run(r) ==
    \/ Begin(r) \/ CommandEnds(r)
    \/ CrewEvent(r) \/ CrewAnswers(r) \/ CrewFails(r)
    \/ AnswerDropped(r) \/ AnswerTold(r) \/ AnswerKept(r) \/ TornDown(r)
    \/ Complete(r) \/ RecordCompleted(r) \/ RecordFailed(r) \/ RunEnds(r)

Voice(r) == Ask(r) \/ Asked(r) \/ BlockFails(r) \/ VoiceEnds(r) \/ VoiceTimesOut(r)

Next ==
    \/ Client
    \/ Subscriber
    \/ \E p \in Handlers : Starting(p)
    \/ \E r \in Runs : Run(r) \/ Voice(r)

Spec == Init /\ [][Next]_vars

\* A handler goes on once it has begun; a crew answers within its timeout; the audio
\* service answers what it got.  Nobody has to speak, write or interrupt.
Goes ==
    \/ NoSpeech \/ SpeechAfterInterrupt \/ Flush \/ Abort \/ Committed
    \/ InterruptRun \/ InterruptPublish \/ InterruptEnds

FairSpec ==
    /\ Spec
    /\ WF_vars(Goes)
    /\ WF_vars(Hears)
    /\ \A p \in Handlers : WF_vars(Starting(p))
    /\ \A r \in Runs :
         /\ WF_vars(\/ Begin(r) \/ CommandEnds(r) \/ CrewAnswers(r)
                    \/ AnswerDropped(r) \/ AnswerTold(r) \/ AnswerKept(r) \/ TornDown(r)
                    \/ Complete(r) \/ RecordCompleted(r) \/ RecordFailed(r) \/ RunEnds(r))
         /\ WF_vars(SpeechEnds(r) \/ Asked(r) \/ VoiceEnds(r) \/ VoiceTimesOut(r))

-----------------------------------------------------------------------------
Awaits == [pc : Stops, turn : Turns \cup {None}, run : Runs \cup {None},
           request : Requests \cup {Silent}, speech : BOOLEAN]
Voices == [stage : {"none", "idle", "asking", "rejected", "waiting", "gone", "cut"}, block : 0 .. Blocks]
Rows   == {"none", "reasoning", "completed", "interrupted", "failed"}

\* The values the fields, rows and events take.
TypeOK ==
    /\ state \in States /\ turn \in Turns \cup {None} /\ runTask \in Runs \cup {None}
    /\ committed \in BOOLEAN /\ cutting \in BOOLEAN
    /\ kind \in [Turns -> {"none", "text", "audio"}] /\ barge \in SUBSET Turns
    /\ runOf \in [Turns -> Runs \cup {None}]
    /\ at \in [Handlers -> Awaits]
    /\ stage \in [Runs -> RunStages] /\ of \in [Runs -> Turns \cup {None}]
    /\ id \in [Runs -> Runs \cup {None}] /\ holds \in [Runs -> Turns \cup {None}]
    /\ row \in [Runs -> Rows]
    /\ buffer \in SUBSET Turns /\ finals \in Seq(SUBSET Turns)
    /\ voice \in [Runs -> Voices]
    /\ active \in Requests \cup {Silent}
    /\ misheard \in SUBSET Turns /\ replies \in [Turns -> Nat]
    /\ faults \in 0 .. MaxFaults

\* A handler or a run is about to close what is open.
EndInSight ==
    \/ at["client"].pc \in Interrupting \cup {"abort"}
    \/ \E p \in Handlers : at[p].pc \in {"create_failed", "failing"}
    \/ \E r \in Runs : stage[r] \in {"complete", "failing"}

\* A run that answers, or is about to.
Answers(r) == \/ Live(r) /\ stage[r] # "stopping"
              \/ \E p \in Handlers : Pc(p, "starting") /\ at[p].run = r

AtRest == {"ready", "buffering", "closed"}

\* A ready session with both handlers at rest has no turn, no commit and no run but one
\* that lost its turn: the next message or speech starts from nothing.  A busy one has
\* its transcript to come, the run of its own turn, or an end in sight.  Three accidents
\* leave it busy with nothing to come: the audio service gave no answer to a commit
\* ("silent_asr"), a run or slash command that had lost its turn entered REASONING or
\* STREAMING_OUTPUT all the same ("late_start"), and a voice that outlived teardown() or
\* drain() ended its run without fail_run or complete_run ("late_voice").
ReadyOrServed ==
    /\ state = "ready" /\ at["client"] = Rest /\ at["sub"] = Rest
         => turn = None /\ ~committed /\ (runTask = None \/ runTask \in strays)
    /\ state \notin AtRest /\ ~EndInSight /\ accidents = {}
         => /\ turn # None
            /\ \/ finals # <<>> \/ at["sub"].pc \in {"control", "text", "empty"}
               \/ runOf[turn] # None /\ Answers(runOf[turn])

\* The browser gets one message_completed for a turn, unless its answer was being
\* completed while an interrupt was under way, or a run has lost its turn and answers
\* another one.
RepliedOnce ==
    \A t \in Turns : replies[t] <= 1 \/ t \in overlapped \/ strays # {}

\* A transcript names no turn; it is stored as the message of another turn than the one
\* it was spoken in only after that one was interrupted or lost its audio service.
TranscriptReachesItsTurn ==
    \A t \in misheard : \E u \in cut : u < t

\* The request that counts as being spoken is one of a run under way: its chunks are let
\* through.  A run that an interrupt ends while it tears down, drains or has not begun
\* takes its voice along, one that works lets it finish first.  The ways past that are a
\* consumer cancelled while sending, which leaves its request behind, and an interrupt
\* that hits the run between its crew's answer and the end of its voice queue, where
\* nothing tears the voice down: it speaks on after the run.
QuietAfterTheRun ==
    active # Silent => \/ Live(active[1])
                       \/ voice[active[1]].stage = "cut"
                       \/ active[1] \in orphans

\* A run is recorded as completed or failed by a run of its own turn, although
\* complete_run and fail_run write the row of whatever turn is open: another one's row is
\* reached only by a run that has lost its turn, and by a failed create.
OwnOutcome ==
    [][\A r \in Runs :
          row'[r] # row[r] /\ row'[r] \in {"completed", "failed"}
            => \/ \E q \in Runs : stage'[q] # stage[q] /\ (q \in strays \/ of[q] = of[r])
               \/ \E p \in Handlers : Pc(p, "create_failed")]_vars

\* A session that is busy gets ready for input again (or its connection ends), unless one
\* of the accidents named above ReadyOrServed leaves it with nothing that would end it.
EveryTurnEnds ==
    state \notin AtRest ~> state \in AtRest \/ accidents # {}
=============================================================================
