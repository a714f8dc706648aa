---------------------------- MODULE DispatchRouter ----------------------------
(***************************************************************************)
(* DispatchRouter (backend/services/chat/router.py): which inference       *)
(* services may take a request.  Pure functions of the static facts a      *)
(* service registered, of the rows that are running and of the service ids *)
(* that hold a connection.                                                 *)
(***************************************************************************)
EXTENDS FiniteSets

CONSTANTS Services,
          Facts,     \* what each service registered, see Registration
          Models,    \* load names
          Kinds,     \* content types, aliases ("text", "llm", "chat") taken together
          Audio,     \* the content type of audio, asr and tts
          None       \* an empty load_name, fixed_model or capability

Capabilities == {"asr", "tts"}

\* InferenceService: service_type, supports_task and, of config, the models.
Registration == [kind : Kinds, task : BOOLEAN, models : SUBSET Models,
                 fixed : Models \cup {None}, capabilities : SUBSET Capabilities]

\* DispatchSpec.
Specs == [kind : Kinds, task : BOOLEAN, load : Models \cup {None},
          capability : Capabilities \cup {None}]

ASSUME RouterAssumption ==
    /\ Facts \in [Services -> Registration]
    /\ Audio \in Kinds
    /\ None \notin Models \cup Capabilities \cup Services

-----------------------------------------------------------------------------
Fixed(x) == Facts[x].fixed # None

\* _effective_served_models: a pinned service serves its pin alone.
Served(x) == IF Fixed(x) THEN {Facts[x].fixed} ELSE Facts[x].models

\* The loop of list_services.  A capability counts for audio only, and an empty
\* set of connected ids does not filter.
Eligible(running, connected, spec) ==
    {x \in running :
        /\ connected # {} => x \in connected
        /\ spec.task => Facts[x].task
        /\ Facts[x].kind = spec.kind
        /\ spec.kind = Audio /\ spec.capability # None => spec.capability \in Facts[x].capabilities}

\* A service of audio_strict, with a load_name, or else of audio_pinned.
Declares(x, load) == IF load # None THEN load \in Served(x) ELSE Fixed(x)

Preferred(running, connected, spec) ==
    {x \in Eligible(running, connected, spec) : Declares(x, spec.load)}

\* The fallback of tts: no service declares the model, or none is pinned.
Loose(running, connected, spec) ==
    /\ spec.kind = Audio
    /\ spec.capability = "tts"
    /\ Preferred(running, connected, spec) = {}

\* list_services.  pick_service takes any of them and raises when there is none.
ListServices(running, connected, spec) ==
    IF spec.kind # Audio \/ Loose(running, connected, spec)
    THEN Eligible(running, connected, spec)
    ELSE Preferred(running, connected, spec)
=============================================================================
