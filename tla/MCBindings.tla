------------------------------ MODULE MCBindings ------------------------------
(***************************************************************************)
(* The bindings to other languages and the command line tool, one at a     *)
(* time: what crosses them, and how they keep alive what the IPC threads   *)
(* still need.  The parts share no state; client says which one a          *)
(* behaviour is about, and the others rest in their initial states.        *)
(***************************************************************************)
EXTENDS MCValues, JsCallbackManager, JsInterface, AniCallbackManager, RustWrapper, ToolClient

VARIABLE client     (* "values", "callbacks", "js", "ani", "rust" or "tool" *)

allVars == <<client, cvars, vars, jVars, aniVars, rVars, tVars>>

(* Only the active part has a choice of initial states.                    *)
AllInit ==
  /\ client \in {"values", "callbacks", "js", "ani", "rust", "tool"}
  /\ ConversionsInit /\ Init /\ JInit /\ AniInit /\ RInit /\ TInit
  /\ client # "ani" => aniOwner = "listener"
  /\ client # "rust" => rKind = "watcher"
  /\ client # "tool" => tService = "up"

OthersOfValues == <<client, vars, jVars, aniVars, rVars, tVars>>
OthersOfCallbacks == <<client, cvars, jVars, aniVars, rVars, tVars>>
OthersOfJs == <<client, cvars, vars, aniVars, rVars, tVars>>
OthersOfAni == <<client, cvars, vars, jVars, rVars, tVars>>
OthersOfRust == <<client, cvars, vars, jVars, aniVars, tVars>>
OthersOfTool == <<client, cvars, vars, jVars, aniVars, rVars>>

AllNext ==
  \/ client = "values" /\ ConversionsNext /\ UNCHANGED OthersOfValues
  \/ client = "callbacks" /\ Next /\ UNCHANGED OthersOfCallbacks
  \/ client = "js" /\ JNext /\ UNCHANGED OthersOfJs
  \/ client = "ani" /\ AniNextStep /\ UNCHANGED OthersOfAni
  \/ client = "rust" /\ RNext /\ UNCHANGED OthersOfRust
  \/ client = "tool" /\ TNext /\ UNCHANGED OthersOfTool

(* A thread inside Add of the callback manager goes on, and the uv loop    *)
(* runs the works it has; a JS thread inside a call goes on, and runs the  *)
(* callbacks of its queriers in their turn; the main thread of the tool    *)
(* goes on, and the service completes the query it has accepted, as long   *)
(* as it lives.                                                            *)
AllSpec ==
  /\ AllInit /\ [][AllNext]_allVars
  /\ \A t \in Adders : WF_allVars(client = "callbacks" /\ AdderStep(t) /\ UNCHANGED OthersOfCallbacks)
  /\ WF_allVars(client = "callbacks" /\ LoopStep /\ UNCHANGED OthersOfCallbacks)
  /\ \A t \in JsThreads :
       /\ WF_allVars(client = "js" /\ JCallStep(t) /\ UNCHANGED OthersOfJs)
       /\ \A q \in Ids : SF_allVars(client = "js" /\ RunComplete(t, q) /\ UNCHANGED OthersOfJs)
  /\ WF_allVars(client = "tool" /\ ToolStep /\ UNCHANGED OthersOfTool)
  /\ WF_allVars(client = "tool" /\ tExit = "running" /\ ToolOnComplete /\ UNCHANGED OthersOfTool)
================================================================================
