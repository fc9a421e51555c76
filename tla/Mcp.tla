-------------------------------- MODULE Mcp --------------------------------
(***************************************************************************)
(* The MCP server (crates/mcp/src/server.rs, suspend.rs) over Executor.    *)
(* Every tools/call gets an executor of its own, which runs in a task of   *)
(* its own and races against the handler of the call: either the task      *)
(* ends, or its cascade comes to the SuspendLayer, announces that and      *)
(* waits, and the handler parks it in the pending map and answers with a   *)
(* token.  A later arcana.resume takes the entry, sends the resolution and *)
(* answers with the result of the task.                                    *)
(*                                                                         *)
(* Here the attempts of Executor are the calls of one server.  Nothing     *)
(* cancels them: their token is made for them and kept by nobody.          *)
(***************************************************************************)
EXTENDS Executor

CONSTANT Resumes   \* calls of the control tool arcana.resume

\* build_executor: an executor for each call, whose SuspendLayer is followed by
\* ProceedLayer.
ASSUME CallsAssumption ==
  /\ \A a, b \in Attempts : Home[a] = Home[b] => a = b
  /\ \A e \in Executors : \A i \in DOMAIN Cascade[e] :
       Cascade[e][i] = "suspend" => i + 1 \in DOMAIN Cascade[e] /\ Cascade[e][i + 1] = "mcp_proceed"

ASSUME TokensAssumption == None \notin Attempts /\ Resumes \cap Attempts = {}

VARIABLES
  up,         \* the server's process runs
  handler,    \* where handle_capability stands for each call
  announced,  \* calls whose SuspendLayer sent its InteractionAnnounce
  channel,    \* the resolution channel of each call
  pending,    \* the calls in the pending map, under their tokens
  resume,     \* where handle_resume stands for each resume
  reply       \* the CallToolResult of each call and each resume

server     == <<handler, announced, channel, pending, resume, reply>>
serverVars == <<vars, up, server>>

-----------------------------------------------------------------------------
(***************************************************************************)
(* Envelopes, resolutions and channels.                                    *)
(***************************************************************************)

Reply(status, input) == [status |-> status, input |-> input]

NoReply == Reply("none", None)
Denied  == Reply("denied", None)

\* What a client may send as `resolution`; "other" is anything unrecognized.
Arguments == [verb : {"allow", "deny", "other"}, input : {None}]
               \cup [verb : {"replace_input"}, input : Inputs]

\* parse_resolution: what is not recognized denies.
ParseResolution(argument) ==
  CASE argument.verb = "allow"           -> Answer("allow", None)
    [] argument.verb = "replace_input"   -> Answer("replace", argument.input)
    [] argument.verb \in {"deny", "other"} -> Answer("deny", None)

\* A channel nothing was sent on, and one whose sender was dropped.
Open       == Answer("open", None)
SenderGone == Answer("closed", None)

\* SuspendLayer::evaluate after its await.
Heard(a) ==
  CASE channel[a].kind = "allow"             -> Answer("allow", att[a].input)
    [] channel[a].kind = "replace"           -> channel[a]
    [] channel[a].kind \in {"deny", "closed"} -> Answer("deny", att[a].input)

\* The spawned task has sent its result or dropped the sender.
TaskEnded(a) == att[a].pc = "done" \/ Home[a] \in dead

\* map_execution_result
MapExecutionResult(a) ==
  IF att[a].pc = "done" /\ att[a].outcome = "success" THEN Reply("completed", att[a].input)
                                                      ELSE Denied

-----------------------------------------------------------------------------
(***************************************************************************)
(* tools/call.                                                             *)
(***************************************************************************)

\* handle_capability up to its select!: the executor is built and spawned, or cannot be
\* built.
HandleCapability(a) ==
  /\ up
  /\ handler[a] = "idle"
  /\ \/ /\ handler' = [handler EXCEPT ![a] = "racing"]
        /\ UNCHANGED reply
     \/ /\ handler' = [handler EXCEPT ![a] = "refused"]
        /\ reply' = [reply EXCEPT ![a] = Reply("error", None)]
  /\ UNCHANGED <<vars, up, announced, channel, pending, resume>>

Spawned(a) == handler[a] \notin {"idle", "refused"}

AtSuspend(a) ==
  /\ At(a, "cascade")
  /\ att[a].step \in DOMAIN Cascade[Home[a]]
  /\ Cascade[Home[a]][att[a].step] = "suspend"

\* A step of the spawned task that SuspendLayer has no part in.
TaskStep(a) ==
  /\ Spawned(a)
  /\ ~AtSuspend(a)
  /\ AttemptStep(a)
  /\ UNCHANGED <<up, server>>

\* SuspendLayer::evaluate up to its await: it announces, or finds the handler gone.
Announce(a) ==
  /\ AtSuspend(a)
  /\ a \notin announced
  /\ handler[a] = "racing"
  /\ announced' = announced \cup {a}
  /\ UNCHANGED <<vars, up, handler, channel, pending, resume, reply>>

AnnounceFails(a) ==
  /\ AtSuspend(a)
  /\ a \notin announced
  /\ handler[a] = "dropped"
  /\ TakeAnswer(a, Answer("deny", att[a].input))
  /\ UNCHANGED <<up, server>>

\* SuspendLayer::evaluate after its await: the resolution, or a dropped sender.
Resolve(a) ==
  /\ AtSuspend(a)
  /\ a \in announced
  /\ channel[a] # Open
  /\ TakeAnswer(a, Heard(a))
  /\ UNCHANGED <<up, server>>

\* park: the announce arm of the biased select!.
Park(a) ==
  /\ up
  /\ handler[a] = "racing"
  /\ a \in announced
  /\ pending' = pending \cup {a}
  /\ handler' = [handler EXCEPT ![a] = "answered"]
  /\ reply' = [reply EXCEPT ![a] = Reply("interaction_required", att[a].input)]
  /\ UNCHANGED <<vars, up, announced, channel, resume>>

\* Mutant: the handler waits for the announcement only.
MutantReturnResult(a) ==
  /\ up
  /\ handler[a] = "racing"
  /\ a \in announced
  /\ TaskEnded(a)
  /\ UNCHANGED <<vars, up, server>>

\* The other arms of the select!: the task ended without coming to the SuspendLayer.
ReturnResult(a) ==
  /\ up
  /\ handler[a] = "racing"
  /\ a \notin announced
  /\ TaskEnded(a)
  /\ handler' = [handler EXCEPT ![a] = "answered"]
  /\ reply' = [reply EXCEPT ![a] = MapExecutionResult(a)]
  /\ UNCHANGED <<vars, up, announced, channel, pending, resume>>

\* The handler is dropped at its await: resolution_tx and both receivers go with it.
DropCall(a) ==
  /\ up
  /\ handler[a] = "racing"
  /\ handler' = [handler EXCEPT ![a] = "dropped"]
  /\ channel' = [channel EXCEPT ![a] = SenderGone]
  /\ UNCHANGED <<vars, up, announced, pending, resume, reply>>

-----------------------------------------------------------------------------
(***************************************************************************)
(* arcana.resume.                                                          *)
(***************************************************************************)

Resume(pc, token, resolution) == [pc |-> pc, token |-> token, resolution |-> resolution]

\* Mutant: the entry is read and stays in the map.
MutantHandleResume(r, token, argument) ==
  /\ up
  /\ resume[r].pc = "idle"
  /\ IF token \notin pending \/ Home[token] \in dead
       THEN /\ resume' = [resume EXCEPT ![r] = Resume("refused", None, Open)]
            /\ reply' = [reply EXCEPT ![r] = Denied]
            /\ UNCHANGED channel
       ELSE /\ resume' = [resume EXCEPT ![r] = Resume("waiting", token, ParseResolution(argument))]
            /\ channel' = [channel EXCEPT ![token] = ParseResolution(argument)]
            /\ UNCHANGED reply
  /\ UNCHANGED <<vars, up, handler, announced, pending>>

\* handle_resume up to its await: the entry is removed from the map and the resolution
\* sent; a token that is missing, unknown or used is refused, and so is one whose call is
\* no longer active.
HandleResume(r, token, argument) ==
  /\ up
  /\ resume[r].pc = "idle"
  /\ pending' = pending \ {token}
  /\ IF token \notin pending \/ Home[token] \in dead
       THEN /\ resume' = [resume EXCEPT ![r] = Resume("refused", None, Open)]
            /\ reply' = [reply EXCEPT ![r] = Denied]
            /\ UNCHANGED channel
       ELSE /\ resume' = [resume EXCEPT ![r] = Resume("waiting", token, ParseResolution(argument))]
            /\ channel' = [channel EXCEPT ![token] = ParseResolution(argument)]
            /\ UNCHANGED reply
  /\ UNCHANGED <<vars, up, handler, announced>>

\* handle_resume after its await.
ReturnResumed(r) ==
  /\ up
  /\ resume[r].pc = "waiting"
  /\ TaskEnded(resume[r].token)
  /\ resume' = [resume EXCEPT ![r].pc = "answered"]
  /\ reply' = [reply EXCEPT ![r] = MapExecutionResult(resume[r].token)]
  /\ UNCHANGED <<vars, up, handler, announced, channel, pending>>

\* The resume is dropped at its await: its call goes on and nobody hears of it.
DropResume(r) ==
  /\ up
  /\ resume[r].pc = "waiting"
  /\ resume' = [resume EXCEPT ![r].pc = "dropped"]
  /\ UNCHANGED <<vars, up, handler, announced, channel, pending, reply>>

-----------------------------------------------------------------------------
(***************************************************************************)
(* Panics, kills and the session beside the server.                        *)
(***************************************************************************)

\* A tool panics: the task of its call unwinds and its executor is gone.
Panic(a) ==
  /\ At(a, "running")
  /\ Kill(Home[a])
  /\ UNCHANGED <<up, server>>

\* The suspended state dies with the process.
ServerDies ==
  /\ up
  /\ up' = FALSE
  /\ dead' = Executors
  /\ UNCHANGED <<latched, next, loop, att, cancelled, file, history, failed, server>>

\* The machine loses power, and the process with it.
MachineDies ==
  /\ up
  /\ up' = FALSE
  /\ PowerLoss
  /\ UNCHANGED server

ServerInit ==
  /\ Init
  /\ up = TRUE
  /\ handler = [a \in Attempts |-> "idle"]
  /\ announced = {}
  /\ channel = [a \in Attempts |-> Open]
  /\ pending = {}
  /\ resume = [r \in Resumes |-> Resume("idle", None, Open)]
  /\ reply = [x \in Attempts \cup Resumes |-> NoReply]

ServerNext ==
  \/ \E a \in Attempts :
       \/ HandleCapability(a) \/ TaskStep(a)
       \/ Announce(a) \/ AnnounceFails(a) \/ Resolve(a)
       \/ Park(a) \/ ReturnResult(a) \/ DropCall(a) \/ Panic(a)
  \/ \E r \in Resumes :
       \/ \E token \in Attempts \cup {None}, argument \in Arguments : HandleResume(r, token, argument)
       \/ ReturnResumed(r) \/ DropResume(r)
  \/ ServerDies \/ MachineDies

ServerSpec == ServerInit /\ [][ServerNext]_serverVars

(***************************************************************************)
(* Tasks and handlers are polled while they can go on.  Nobody has to      *)
(* resume a parked call.                                                   *)
(***************************************************************************)
FairServerSpec ==
  /\ ServerSpec
  /\ \A a \in Attempts :
       /\ WF_serverVars(TaskStep(a) \/ Announce(a) \/ AnnounceFails(a) \/ Resolve(a))
       /\ WF_serverVars(Park(a) \/ ReturnResult(a))
  /\ \A r \in Resumes : WF_serverVars(ReturnResumed(r))

-----------------------------------------------------------------------------
(***************************************************************************)
(* Properties.                                                             *)
(***************************************************************************)

Resolutions ==
  [kind : {"open", "closed", "allow", "deny", "replace"}, input : Inputs \cup {None}]

\* Type correctness of the server's channels, map and handlers.
ServerTypeOK ==
  /\ up \in BOOLEAN
  /\ handler \in [Attempts -> {"idle", "refused", "racing", "answered", "dropped"}]
  /\ announced \subseteq Attempts
  /\ channel \in [Attempts -> Resolutions]
  /\ pending \subseteq Attempts
  /\ resume \in [Resumes -> [pc : {"idle", "refused", "waiting", "answered", "dropped"},
                             token : Attempts \cup {None}, resolution : Resolutions]]
  /\ reply \in [Attempts \cup Resumes ->
                  [status : {"none", "error", "denied", "completed", "interaction_required"},
                   input : Inputs \cup {None}]]

\* The resume took the entry of its token out of the map.
Took(r) == resume[r].pc \in {"waiting", "answered", "dropped"}

\* A token is good for one resume, however many race for it (handle_resume).
ResolvedOnce ==
  \A r, s \in Resumes : Took(r) /\ Took(s) /\ resume[r].token = resume[s].token => r = s

\* A call that was suspended is authorised only by the resume that took its token, and
\* with the input its client was shown or the one it sent instead (SuspendLayer, park).
AuthorisedByResume ==
  \A a \in announced : authorised[a] # None =>
    \E r \in Resumes :
      /\ Took(r)
      /\ resume[r].token = a
      /\ \/ resume[r].resolution.kind = "allow" /\ authorised[a] = reply[a].input
         \/ resume[r].resolution = Answer("replace", authorised[a])

\* A reply "completed" is the reply to the request whose call ran, and names the input
\* the tool ran on (map_execution_result).
RepliesAreOwn ==
  /\ \A a \in Attempts : reply[a].status = "completed" =>
       a \notin announced /\ reply[a].input = ran[a] /\ ran[a] # None
  /\ \A r \in Resumes : reply[r].status = "completed" =>
       Took(r) /\ reply[r].input = ran[resume[r].token] /\ reply[r].input # None

\* No suspended call is lost: while it waits, its handler is about to park it or its
\* token is in the map (park, handle_resume).
ParkedCallsReachable ==
  \A a \in announced : up /\ AtSuspend(a) /\ channel[a] = Open =>
    handler[a] = "racing" \/ a \in pending

\* A suspended call is resolved once, by the holder of its token, runs on what was then
\* authorised, is answered to that holder, and can be resolved as long as it waits.
SuspensionSound ==
  /\ ResolvedOnce
  /\ AuthorisedByResume
  /\ RepliesAreOwn
  /\ ParkedCallsReachable

\* The requests that are owed an answer, and the tasks that nothing keeps from ending: a
\* call at its select!, a resume at its await, a task that was resolved or whose handler is
\* gone.
Owed ==
  {a \in Attempts : up /\ handler[a] = "racing"}
    \cup {a \in Attempts : (handler[a] = "dropped" \/ channel[a] # Open) /\ ~TaskEnded(a)}
    \cup {r \in Resumes : up /\ resume[r].pc = "waiting"}

\* Every tools/call is answered, with a result or a token, every resume that took a token
\* is answered, and the task of a call ends once it was resolved or its handler dropped,
\* unless the process dies (handle_capability, handle_resume).  There are finitely many
\* requests, so it is enough to say that in the end none is owed an answer.
EveryRequestAnswered == <>[](Owed = {})
=============================================================================
