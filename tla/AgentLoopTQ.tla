----------------------------- MODULE AgentLoopTQ -----------------------------
(***************************************************************************)
(* AgentLoopWorkerTQ (trainer/ppo/v1/agent_loop_tq.py) on top of the       *)
(* rollout engine it asks for tokens.  Each prompt runs as a background    *)
(* task that starts one agent-loop coroutine per session, gathers them and *)
(* reports the prompt as finished, or as failed at the FIRST session that  *)
(* raises, while the other sessions keep running.                          *)
(*                                                                         *)
(* The engine replicas act as one: update, sleep, abort and resume are     *)
(* gathered over all of them before the trainer goes on.                   *)
(***************************************************************************)
EXTENDS TransferQueue

CONSTANTS
  MaxTurns,     (* max_assistant_turns of an agent loop                    *)
  MaxFailures   (* bound on the sessions that raise in one behaviour       *)

ASSUME TurnsAssumption == MaxTurns \in Nat \ {0} /\ MaxFailures \in Nat

VARIABLES
  task,      (* the _run_prompt coroutine of each prompt                   *)
  session,   (* the agent loop of each session of each prompt              *)
  awake,     (* weights and kv cache of the engine are on the device       *)
  paused,    (* pause_generation: new requests block at the engine         *)
  version    (* global_steps of the weights the engine serves              *)

loopVars   == <<task, session>>
engineVars == <<awake, paused, version>>

TaskStates    == {"none", "queued", "gathering", "finished", "failure"}
SessionStates == {"none", "waiting", "inflight", "tool", "output", "stored", "failed"}

NoVersion == -1

(* turn counts assistant turns; min and max are the min_global_steps and   *)
(* max_global_steps of the trajectory, unset before its first output.      *)
SessionRecords ==
  [pc : SessionStates, turn : 0 .. MaxTurns,
   min : NoVersion .. TotalSteps, max : NoVersion .. TotalSteps]

FreshSession == [pc |-> "none", turn |-> 0, min |-> NoVersion, max |-> NoVersion]

LoopInit ==
  /\ task    = [u \in Prompts |-> "none"]
  /\ session = [u \in Prompts |-> [i \in Sessions |-> FreshSession]]

(* A generate call returned tokens of version v: the first output fixes    *)
(* min_global_steps, every output moves max_global_steps.                  *)
Spanned(s, v) ==
  [s EXCEPT !.min = IF s.min = NoVersion THEN v ELSE @, !.max = v]

Goto(u, i, pc) == session' = [session EXCEPT ![u][i].pc = pc]

Failed == {t \in RealKeys : session[t[1]][t[2]].pc = "failed"}

(* _run_prompt up to gather: tag the prompt running and create one task    *)
(* per session.                                                            *)
PromptStart(u) ==
  /\ task[u] = "queued"
  /\ KvTag(u, "running")
  /\ task' = [task EXCEPT ![u] = "gathering"]
  /\ session' = [session EXCEPT ![u] =
                   [i \in Sessions |-> [FreshSession EXCEPT !.pc = "waiting"]]]
  /\ UNCHANGED engineVars

(* server.generate reaches the engine: blocked while generation is paused, *)
(* but nothing looks at whether the engine sleeps.                         *)
Admit(u, i) ==
  /\ session[u][i].pc = "waiting"
  /\ ~paused
  /\ Goto(u, i, "inflight")
  /\ UNCHANGED <<task, kvVars, engineVars>>

(* The engine finishes a request: a tool call, or the end of the loop;     *)
(* the last assistant turn always ends it.  The turn counter is the loop's *)
(* own and goes with it.                                                   *)
TurnDone(u, i) ==
  LET s == session[u][i] IN
  /\ s.pc = "inflight"
  /\ awake
  /\ \/ /\ s.turn + 1 < MaxTurns
        /\ session' = [session EXCEPT ![u][i] =
                         [Spanned(s, version) EXCEPT !.pc = "tool", !.turn = @ + 1]]
     \/ session' = [session EXCEPT ![u][i] =
                      [Spanned(s, version) EXCEPT !.pc = "output", !.turn = 0]]
  /\ UNCHANGED <<task, kvVars, engineVars>>

(* The tool answered; the response is appended and the loop generates      *)
(* again, or ends when the response does not fit.                          *)
ToolReturn(u, i) ==
  /\ session[u][i].pc = "tool"
  /\ \/ Goto(u, i, "waiting")
     \/ session' = [session EXCEPT ![u][i] = [@ EXCEPT !.pc = "output", !.turn = 0]]
  /\ UNCHANGED <<task, kvVars, engineVars>>

(* The generate call or the reward computation raises.                     *)
SessionFail(u, i) ==
  /\ session[u][i].pc \in {"inflight", "output"}
  /\ Cardinality(Failed) < MaxFailures
  /\ Goto(u, i, "failed")
  /\ UNCHANGED <<task, kvVars, engineVars>>

(* _agent_loop_postprocess: score, then put the trajectory; the store      *)
(* takes it whatever became of the prompt key.                             *)
Store(u, i) ==
  /\ session[u][i].pc = "output"
  /\ KvPutTraj({<<u, i>>})
  /\ Goto(u, i, "stored")
  /\ UNCHANGED <<task, engineVars>>

(* Mutation of PromptFinish: reports at the first session that ends.       *)
PromptFinishFirst(u) ==
  /\ task[u] = "gathering"
  /\ \E i \in Sessions : session[u][i].pc = "stored"
  /\ KvTag(u, "finished")
  /\ task' = [task EXCEPT ![u] = "finished"]
  /\ UNCHANGED <<session, engineVars>>

(* gather returned: every session ended without an exception.              *)
PromptFinish(u) ==
  /\ task[u] = "gathering"
  /\ \A i \in Sessions : session[u][i].pc = "stored"
  /\ KvTag(u, "finished")
  /\ task' = [task EXCEPT ![u] = "finished"]
  /\ UNCHANGED <<session, engineVars>>

(* Mutation of PromptFailure: an exception is not caught, the tag never set. *)
PromptFailureUncaught(u) ==
  /\ task[u] = "gathering"
  /\ \E i \in Sessions : session[u][i].pc = "failed"
  /\ task' = [task EXCEPT ![u] = "failure"]
  /\ UNCHANGED <<session, kvVars, engineVars>>

(* gather raised: one session failed, whatever its siblings do.            *)
PromptFailure(u) ==
  /\ task[u] = "gathering"
  /\ \E i \in Sessions : session[u][i].pc = "failed"
  /\ KvTag(u, "failure")
  /\ task' = [task EXCEPT ![u] = "failure"]
  /\ UNCHANGED <<session, engineVars>>

Inflight(u, i) == session[u][i].pc = "inflight"

(* abort_all_requests: generation is paused and every admitted request     *)
(* returns what it has; FullyAsyncLLMServerClient retries with the rest.   *)
AbortAll ==
  /\ paused' = TRUE
  /\ session' = [u \in Prompts |-> [i \in Sessions |->
                   IF Inflight(u, i)
                   THEN [Spanned(session[u][i], version) EXCEPT !.pc = "waiting"]
                   ELSE session[u][i]]]
  /\ UNCHANGED <<task, awake, version>>

(* wait_for_requests_to_drain: nothing is left in the engine.              *)
Drained == \A u \in Prompts, i \in Sessions : ~Inflight(u, i)

(* One step of one agent loop.                                             *)
SessionNext(u, i) ==
  \/ Admit(u, i)
  \/ TurnDone(u, i)
  \/ ToolReturn(u, i)
  \/ SessionFail(u, i)
  \/ Store(u, i)

WorkerNext ==
  \E u \in Prompts :
    \/ PromptStart(u)
    \/ PromptFinish(u)
    \/ PromptFailure(u)
    \/ \E i \in Sessions : SessionNext(u, i)

LoopTypeOK ==
  /\ task \in [Prompts -> TaskStates]
  /\ session \in [Prompts -> [Sessions -> SessionRecords]]
  /\ awake \in BOOLEAN
  /\ paused \in BOOLEAN
  /\ version \in 0 .. TotalSteps
==============================================================================
