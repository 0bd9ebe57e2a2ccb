---------------------------- MODULE CouncilRequest ----------------------------
(***************************************************************************)
(* From a request to a council's calls: the config file and its validation *)
(* (council/config.py), the request that overrides members and rounds      *)
(* (council/api.py), and the runner, which loads the file again, edited    *)
(* meanwhile perhaps, and asks the fallback when the spokesperson fails    *)
(* (council/runner.py).                                                    *)
(*                                                                         *)
(* Members are numbered in the order of the file, the enabled ones first;  *)
(* a request names a range of them.                                        *)
(***************************************************************************)
EXTENDS Naturals, FiniteSets

CONSTANTS
  MaxMembers,        \* MAX_MEMBERS
  MaxTotalTurnCalls, \* MAX_TOTAL_TURN_CALLS
  Rounds             \* rounds a config or a request may ask for, up to MAX_ROUNDS

VARIABLES
  stage,        \* where the council is
  config,       \* the config that was validated
  members,      \* session.members
  rounds,       \* session.rounds
  spokesperson, \* session.spokesperson
  participants, \* members that are still enabled and have a binary
  calls         \* how often a member's CLI was started

vars == <<stage, config, members, rounds, spokesperson, participants, calls>>

None == 0
Range(from, to) == from..to
Ranges == {Range(i, j) : i, j \in 1..MaxMembers} \ {{}}
SmallestOf(S) == CHOOSE x \in S : \A y \in S : x <= y

\* CouncilConfig, but for its total_calls validator.
Configs ==
  {c \in [known : 1..MaxMembers, enabled : 0..MaxMembers, rounds : Rounds, spokesperson : 0..MaxMembers] :
     c.enabled <= c.known /\ c.spokesperson <= c.enabled}

\* validate_total_turn_calls_within_cap
ValidConfig(c) == c.enabled * c.rounds + 1 <= MaxTotalTurnCalls

\* _resolve_effective_members: those the request names, or all that are enabled;
\* unknown and disabled members are refused.
EffectiveMembers(c, requested) == IF requested = {} THEN 1..c.enabled ELSE requested
MembersAccepted(c, requested) ==
  IF requested = {} THEN c.enabled > 0 ELSE requested \subseteq 1..c.enabled

\* _resolve_spokesperson
Spokesperson(c, ids) == IF c.spokesperson \in ids THEN c.spokesperson ELSE SmallestOf(ids)

\* Mutant of WithinCap: the cap is checked for the config's rounds only.
ConfigWithinCap(count, asked) == ValidConfig(config)

\* _validate_turn_call_cap
WithinCap(count, asked) == count * asked + 1 <= MaxTotalTurnCalls

-----------------------------------------------------------------------------
Init ==
  /\ stage = "idle" /\ config \in {c \in Configs : ValidConfig(c)}
  /\ members = {} /\ rounds = 1 /\ spokesperson = None /\ participants = {} /\ calls = 0

\* post_council_session, from the loaded config to the session; refused requests
\* leave nothing.
Post(requested, asked) ==
  LET ids == EffectiveMembers(config, requested)
      count == IF asked = None THEN config.rounds ELSE asked
  IN /\ stage = "idle" /\ MembersAccepted(config, requested) /\ WithinCap(Cardinality(ids), count)
     /\ stage' = "pending"
     /\ members' = ids /\ rounds' = count /\ spokesperson' = Spokesperson(config, ids)
     /\ UNCHANGED <<config, participants, calls>>

\* main loads the file again; _build_participants leaves out members that are
\* gone or disabled by now, and those without a binary.
BuildParticipants(usable) ==
  /\ stage = "pending"
  /\ participants' = members \cap usable
  /\ stage' = IF participants' = {} THEN "failed" ELSE "running"
  /\ UNCHANGED <<config, members, rounds, spokesperson, calls>>

\* The rounds: every participant is asked in each; a member whose CLI cannot be
\* started, a cancel or the wall clock only make fewer calls.
RunRounds ==
  /\ stage = "running" /\ stage' = "spoken"
  /\ calls' = Cardinality(participants) * rounds
  /\ UNCHANGED <<config, members, rounds, spokesperson, participants>>

\* _run_synthesis: the spokesperson, if it takes part ...
AskSpokesperson(answers) ==
  /\ stage = "spoken" /\ spokesperson \in participants
  /\ calls' = calls + 1
  /\ stage' = IF answers THEN "converged" ELSE "fallback"
  /\ UNCHANGED <<config, members, rounds, spokesperson, participants>>

NoSpokesperson ==
  /\ stage = "spoken" /\ spokesperson \notin participants
  /\ stage' = "fallback"
  /\ UNCHANGED <<config, members, rounds, spokesperson, participants, calls>>

\* ... and a participant that has answered in a round, if there is another one.
AskFallback(answers) ==
  /\ stage = "fallback" /\ participants \ {spokesperson} # {}
  /\ calls' = calls + 1
  /\ stage' = IF answers THEN "converged" ELSE "failed"
  /\ UNCHANGED <<config, members, rounds, spokesperson, participants>>

Next ==
  \/ \E requested \in Ranges \cup {{}}, asked \in Rounds \cup {None} : Post(requested, asked)
  \/ \E usable \in Ranges : BuildParticipants(usable)
  \/ RunRounds \/ NoSpokesperson
  \/ \E answers \in BOOLEAN : AskSpokesperson(answers) \/ AskFallback(answers)

Spec == Init /\ [][Next]_vars

-----------------------------------------------------------------------------
\* A council never starts more than MAX_TOTAL_TURN_CALLS CLIs, although the cap
\* is checked against the config and the request, the file may change before the
\* runner reads it, and the check counts one synthesis where the fallback makes
\* two: no product of members and rounds comes within one of the cap.
CallsWithinCap == calls <= MaxTotalTurnCalls
=============================================================================
