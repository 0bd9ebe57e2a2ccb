------------------------------ MODULE McpBridge ------------------------------
(***************************************************************************)
(* The writing tools of the MCP server (mcp_server.py: create_record,      *)
(* council_post, council_open).  Each asks the daemon for its directory,   *)
(* reads the token file there, posts, and turns whatever comes back within *)
(* five seconds into a sentence for the agent.  The daemon may be down,    *)
(* start with a new token, die in the middle of a request, or finish it    *)
(* after the tool has given up.                                            *)
(***************************************************************************)
EXTENDS Naturals

CONSTANTS
  Calls,      \* calls of a tool
  MaxRestarts \* bound: restarts of the daemon

Tools == {"create_record", "council_post", "council_open"}

VARIABLES
  readonly, \* PM_COUNCIL_READONLY: the server runs inside a council member
  tool,     \* call -> its tool
  valid,    \* call -> does its payload pass validation?
  pc,       \* call -> where the tool is
  sends,    \* call -> the token it read
  reply,    \* call -> what the agent is told
  request,  \* call -> where the daemon is with its request
  wrote,    \* calls whose record, message or session was written
  active,   \* has the project an active council?
  up,       \* does the daemon run?
  token,    \* the token it loaded
  file,     \* the token file: a token, Blank or Missing
  restarts

client == <<pc, sends, reply>>
daemon == <<up, token, file, restarts>>
store == <<wrote, active>>
vars == <<readonly, tool, valid, client, request, store, daemon>>

Blank == 0
Missing == MaxRestarts + 2
Tokens == 1..(MaxRestarts + 1)

Init ==
  /\ readonly \in BOOLEAN
  /\ tool \in [Calls -> Tools] /\ valid \in [Calls -> BOOLEAN]
  /\ pc = [c \in Calls |-> "idle"] /\ sends = [c \in Calls |-> Blank]
  /\ reply = [c \in Calls |-> "none"] /\ request = [c \in Calls |-> "none"]
  /\ wrote = {} /\ active = FALSE
  /\ up = TRUE /\ token = 1 /\ file = 1 /\ restarts = 0

-----------------------------------------------------------------------------
(* What each tool says of what came back: a status, or none.               *)

Refusal == {"blocked", "no token", "token rejected", "invalid", "already active", "request rejected"}
Success == "done"

\* _describe_http_status_error
Describe(status) ==
  [s \in {"403", "409", "422", "500"} |->
     CASE s = "403" -> "token rejected" [] s = "500" -> "daemon error" [] OTHER -> "request rejected"][status]

\* create_record: whatever it does not know is "not responding".
CreateRecordReply(status) ==
  CASE status = "200" -> Success [] status = "422" -> "invalid" [] status = "403" -> "token rejected"
    [] OTHER -> "not responding"

CouncilPostReply(status) ==
  CASE status = "200" -> Success [] status = "422" -> "invalid" [] status = "none" -> "not responding"
    [] OTHER -> Describe(status)

\* Mutant of CouncilOpenReply: any answer but success is put down to the active council.
CouncilOpenReplyConflict(status) ==
  CASE status = "200" -> Success [] status = "none" -> "not responding" [] OTHER -> "already active"

CouncilOpenReply(status) ==
  CASE status = "200" -> Success [] status = "409" -> "already active" [] status = "422" -> "invalid"
    [] status = "none" -> "not responding" [] OTHER -> Describe(status)

ReplyTo(c, status) ==
  CASE tool[c] = "create_record" -> CreateRecordReply(status)
    [] tool[c] = "council_post" -> CouncilPostReply(status)
    [] tool[c] = "council_open" -> CouncilOpenReply(status)

Tell(c, sentence) ==
  /\ reply' = [reply EXCEPT ![c] = sentence]
  /\ pc' = [pc EXCEPT ![c] = "told"]

-----------------------------------------------------------------------------
(* The tool.                                                               *)

\* A council member may open a council, but not post or create.
Blocked(c) == readonly /\ tool[c] # "council_open"

Refuse(c) ==
  /\ pc[c] = "idle" /\ Blocked(c)
  /\ Tell(c, "blocked")
  /\ UNCHANGED <<readonly, tool, valid, sends, request, store, daemon>>

\* _daemon_token: GET /api/health, ...
AskHealth(c) ==
  /\ pc[c] = "idle" /\ ~Blocked(c)
  /\ IF up THEN pc' = [pc EXCEPT ![c] = "token"] /\ UNCHANGED reply
           ELSE Tell(c, ReplyTo(c, "none"))
  /\ UNCHANGED <<readonly, tool, valid, sends, request, store, daemon>>

\* ... then the file.
ReadToken(c) ==
  /\ pc[c] = "token"
  /\ IF file \in Tokens
     THEN /\ sends' = [sends EXCEPT ![c] = file]
          /\ pc' = [pc EXCEPT ![c] = "post"] /\ UNCHANGED reply
     ELSE Tell(c, "no token") /\ UNCHANGED sends
  /\ UNCHANGED <<readonly, tool, valid, request, store, daemon>>

Post(c) ==
  /\ pc[c] = "post"
  /\ IF up THEN /\ request' = [request EXCEPT ![c] = "arrived"]
                /\ pc' = [pc EXCEPT ![c] = "waiting"] /\ UNCHANGED reply
           ELSE Tell(c, ReplyTo(c, "none")) /\ UNCHANGED request
  /\ UNCHANGED <<readonly, tool, valid, sends, store, daemon>>

\* The answer arrives.
Hear(c) ==
  /\ pc[c] = "waiting" /\ request[c] \in {"200", "403", "409", "422", "500"}
  /\ Tell(c, ReplyTo(c, request[c]))
  /\ UNCHANGED <<readonly, tool, valid, sends, request, store, daemon>>

\* HTTP_TIMEOUT_SECONDS are over, or the connection is gone.
GiveUp(c) ==
  /\ pc[c] = "waiting" /\ request[c] \in {"arrived", "written", "lost"}
  /\ Tell(c, ReplyTo(c, "none"))
  /\ UNCHANGED <<readonly, tool, valid, sends, request, store, daemon>>

-----------------------------------------------------------------------------
(* The daemon.                                                             *)

Answer(c, status) ==
  /\ request' = [request EXCEPT ![c] = status]
  /\ UNCHANGED <<readonly, tool, valid, client, daemon>>

\* require_token, validation, and the check for an active council come first.
Reject(c) ==
  /\ up /\ request[c] = "arrived"
  /\ Answer(c, IF sends[c] # token THEN "403" ELSE IF ~valid[c] THEN "422" ELSE "409")
  /\ sends[c] # token \/ ~valid[c] \/ (tool[c] = "council_open" /\ active)
  /\ UNCHANGED store

Accepted(c) == up /\ request[c] = "arrived" /\ sends[c] = token /\ valid[c]

\* The record, message or session file is written.
Write(c) ==
  /\ Accepted(c) /\ (tool[c] = "council_open" => ~active)
  /\ wrote' = wrote \cup {c}
  /\ active' = (active \/ tool[c] = "council_open")
  /\ Answer(c, "written")

Finish(c) == up /\ request[c] = "written" /\ Answer(c, "200") /\ UNCHANGED store

\* An exception before the write, or after it: the runner of a council cannot be
\* started, the board's flush fails.
Fail(c) ==
  /\ \/ Accepted(c)
     \/ up /\ request[c] = "written" /\ tool[c] # "create_record"
  /\ Answer(c, "500") /\ UNCHANGED store

CouncilEnds == active /\ active' = FALSE /\ UNCHANGED <<readonly, tool, valid, client, request, wrote, daemon>>

Die ==
  /\ up /\ up' = FALSE
  /\ request' = [c \in Calls |-> IF request[c] \in {"arrived", "written"} THEN "lost" ELSE request[c]]
  /\ UNCHANGED <<readonly, tool, valid, client, store, token, file, restarts>>

\* load_or_create_token, at the start: a token that is there is kept; a new one is
\* written into a file that is there, empty, for a moment.
Start ==
  /\ ~up /\ restarts < MaxRestarts
  /\ IF file = Missing
     THEN file' = Blank /\ UNCHANGED <<up, token, restarts>>
     ELSE /\ file' = IF file = Blank THEN restarts + 2 ELSE file
          /\ token' = file' /\ up' = TRUE /\ restarts' = restarts + 1
  /\ UNCHANGED <<readonly, tool, valid, client, request, store>>

\* Somebody clears the index directory, which holds the token too.
LoseToken ==
  /\ file # Missing /\ file' = Missing
  /\ UNCHANGED <<readonly, tool, valid, client, request, store, up, token, restarts>>

Call(c) == Refuse(c) \/ AskHealth(c) \/ ReadToken(c) \/ Post(c) \/ Hear(c) \/ GiveUp(c)
Serve(c) == Reject(c) \/ Write(c) \/ Finish(c) \/ Fail(c)
Next == (\E c \in Calls : Call(c) \/ Serve(c)) \/ CouncilEnds \/ Die \/ Start \/ LoseToken

Spec == Init /\ [][Next]_vars

-----------------------------------------------------------------------------
\* What the agent is told decides whether it tries again: after a refusal nothing
\* was written and nothing will be, after a success it was; only "not responding"
\* and "error" leave it open.
RepliesAreTrue ==
  \A c \in Calls :
    /\ reply[c] \in Refusal => c \notin wrote /\ request[c] # "arrived"
    /\ reply[c] = Success => c \in wrote
=============================================================================
