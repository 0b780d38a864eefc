----------------------------- MODULE MCServing -----------------------------
(***************************************************************************)
(* Model-checking instance of what one process keeps while it serves:      *)
(* sockets and connections (Server), connection admission (Admission), the *)
(* tasks of plugins (Plugins) and the writers of log files (Sinks).  They  *)
(* share no state, so a behaviour is one of one of them; secrets rotate in  *)
(* those that prepare plugins and publish none.                            *)
(***************************************************************************)
EXTENDS Server, Admission, Plugins, Sinks

CONSTANT c2  \* the second connection

VARIABLE component  \* whose behaviour this is

servingVars == <<component, serverVars, vars, pluginVars, sinkVars>>

\* A second connection in the first two generations only: a bound.
TwoWhileFew == conn'[c2].pc # "none" => generation' < MaxGen

\* A secret two directives read, tasks of two generations that honour a
\* cancellation and one of a third that does not.
MCReads == <<"key", "key">>
MCCooperative == {1, 2} \X Tasks

\* Two policies for the one log file, beside the standard error stream.
MCPolicies == {Never, [size |-> 1, keep |-> 1]}

ServingInit ==
  /\ component \in {"server", "admission", "plugins", "secrets", "sinks"}
  /\ ServerInit /\ Init /\ PluginInit /\ SinkInit
  /\ component # "server" => foreign = {}

ServingNext ==
  /\ UNCHANGED component
  /\ \/ component = "server" /\ ServerNext /\ TwoWhileFew /\ UNCHANGED <<vars, pluginVars, sinkVars>>
     \/ component = "admission" /\ Next /\ UNCHANGED <<serverVars, pluginVars, sinkVars>>
     \/ /\ component = "plugins" /\ PluginNext /\ UNCHANGED secret
        /\ UNCHANGED <<serverVars, vars, sinkVars>>
     \/ /\ component = "secrets" /\ PluginNext /\ UNCHANGED <<inUse, host>>
        /\ UNCHANGED <<serverVars, vars, sinkVars>>
     \/ component = "sinks" /\ SinkNext /\ UNCHANGED <<serverVars, vars, pluginVars>>

\* No fair action of a component is enabled in its first state, where the others
\* leave it.
ServingSpec ==
  /\ ServingInit /\ [][ServingNext]_servingVars
  /\ ServerFairness /\ PluginFairness /\ SinkFairness

\* What is told to end does: the listeners and connections of a server that is
\* shut down or of a generation that drains (serve.rs, connection_drain.rs), the
\* tasks of a generation nobody holds (plugin_tasks.rs), and the wait for the
\* writers of log files (sink.rs).
ServingEnds == ServerDrains /\ ReleasedTasksEnd /\ DrainEnds
=============================================================================
