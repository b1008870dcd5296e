------------------------------ MODULE ToolClient ------------------------------
(***************************************************************************)
(* The command line tool hisysevent: main.cpp, hisysevent_tool.cpp and the *)
(* callbacks of hisysevent_tool_query.cpp and hisysevent_tool_listener.cpp.*)
(* The main thread parses the options, subscribes or starts a query, and   *)
(* waits.  Nobody ever notifies it: the process ends in OnComplete of its  *)
(* query, on an IPC thread, which may come before the call of Query has    *)
(* returned.  A subscription lasts until the process is killed: the        *)
(* OnServiceDied that would end it is never called (module ServiceDeath).  *)
(*                                                                         *)
(* What an option's argument says is reduced to what the tool tells apart. *)
(***************************************************************************)
EXTENDS Integers

CONSTANTS
  MaxOptions,      (* options on the command line                           *)
  MaxBatches       (* OnQuery or OnEvent calls of the service               *)

ASSUME ToolAssumption == MaxOptions \in Nat /\ MaxBatches \in Nat

VARIABLES
  tPc,             (* where the main thread is                              *)
  tOptions,        (* options read so far                                   *)
  tArg,            (* clientCmdArg_                                         *)
  tRequest,        (* with the service: "none", "query", "listener", "done" *)
  tService,        (* the service: "up", "absent" from the start or "died"  *)
  tBatches,        (* records printed so far, by batch                      *)
  tExit            (* "running", or how the process ended                   *)

tVars == <<tPc, tOptions, tArg, tRequest, tService, tBatches, tExit>>

ToolNames == {"domain", "eventName", "tag"}

(* ArgStuct; invalid are the names that are no regular expression of at    *)
(* most 32 characters (the empty string is one).                           *)
ArgStuct ==
  [real |-> FALSE, history |-> FALSE, ruleType |-> "WHOLE_WORD", beginTime |-> -1, endTime |-> -1,
   invalid |-> {}]

(* Time stamps on the command line.                                        *)
ToolTimes == {0, 1, 2}

(* InitOptHandlers: what each option makes of the arguments.  -m, -g, -v   *)
(* and the letters getopt does not know change nothing that is told apart. *)
(* A number that is none is read as 0, a formatted time that is none as -1.*)
OptHandlers(arg) ==
  {[arg EXCEPT !.real = TRUE], [arg EXCEPT !.history = TRUE], arg}
  \cup {[arg EXCEPT !.ruleType = r] : r \in {"WHOLE_WORD", "PREFIX", "REGULAR"}}
  \cup {[arg EXCEPT !.invalid = @ \cup {name}] : name \in ToolNames}
  \cup {[arg EXCEPT !.invalid = @ \ {name}] : name \in ToolNames}
  \cup {[arg EXCEPT !.beginTime = n] : n \in ToolTimes \cup {-1}}
  \cup {[arg EXCEPT !.endTime = n] : n \in ToolTimes \cup {-1}}

(* The regular expressions are only looked at if they are used as such.    *)
IsValidRegex(arg) == arg.ruleType = "REGULAR" => arg.invalid = {}

CheckCmdLine(arg) ==
  /\ arg.real # arg.history
  /\ arg.history => ~(arg.endTime > 0 /\ arg.beginTime > arg.endTime)
-----------------------------------------------------------------------------
(* HandleInput: the next option; -h ends the process.                      *)
HandleInput ==
  /\ tPc = "parse"
  /\ tOptions < MaxOptions
  /\ tOptions' = tOptions + 1
  /\ \/ tArg' \in OptHandlers(tArg) /\ UNCHANGED tExit
     \/ tExit' = "help" /\ UNCHANGED tArg
  /\ UNCHANGED <<tPc, tRequest, tService, tBatches>>

(* ParseCmdLine and the checks DoAction begins with.                       *)
ParseCmdLine ==
  /\ tPc = "parse"
  /\ IF CheckCmdLine(tArg) /\ IsValidRegex(tArg) /\ (tArg.history => tArg.ruleType = "WHOLE_WORD")
     THEN tPc' = "act" /\ UNCHANGED tExit
     ELSE tExit' = "usage" /\ UNCHANGED tPc
  /\ UNCHANGED <<tOptions, tArg, tRequest, tService, tBatches>>

(* DoAction: AddListener or Query.  The service takes the request or       *)
(* refuses it (too many watchers, a query too frequent); an error is       *)
(* printed, and DoAction returns true all the same.                        *)
DoAction ==
  /\ tPc = "act"
  /\ \/ tRequest' = IF tService = "up" THEN IF tArg.real THEN "listener" ELSE "query" ELSE "none"
     \/ tRequest' = "none"
  /\ tPc' = "binder"
  /\ UNCHANGED <<tOptions, tArg, tService, tBatches, tExit>>

(* The binder thread is started, and WaitClient waits.                     *)
WaitClient ==
  /\ tPc = "binder"
  /\ tPc' = "wait"
  /\ UNCHANGED <<tOptions, tArg, tRequest, tService, tBatches, tExit>>

(* OnQuery of the query and OnEvent of the listener print their records.   *)
ToolOnRecords ==
  /\ tRequest \in {"query", "listener"} /\ tService = "up"
  /\ tBatches < MaxBatches
  /\ tBatches' = tBatches + 1
  /\ UNCHANGED <<tPc, tOptions, tArg, tRequest, tService, tExit>>

(* Mutant of ToolOnComplete: the main thread is left to end the process.   *)
ToolOnCompleteReturns ==
  /\ tRequest = "query" /\ tService = "up"
  /\ tRequest' = "done"
  /\ UNCHANGED <<tPc, tOptions, tArg, tService, tBatches, tExit>>

ToolOnComplete ==
  /\ tRequest = "query" /\ tService = "up"
  /\ tRequest' = "done"
  /\ tExit' = "complete"
  /\ UNCHANGED <<tPc, tOptions, tArg, tService, tBatches>>

ServiceDies ==
  /\ tService = "up"
  /\ tService' = "died"
  /\ UNCHANGED <<tPc, tOptions, tArg, tRequest, tBatches, tExit>>
-----------------------------------------------------------------------------
TInit ==
  /\ tPc = "parse"
  /\ tOptions = 0
  /\ tArg = ArgStuct
  /\ tRequest = "none"
  /\ tService \in {"up", "absent"}
  /\ tBatches = 0
  /\ tExit = "running"

ToolStep == tExit = "running" /\ (HandleInput \/ ParseCmdLine \/ DoAction \/ WaitClient)

TNext == ToolStep \/ (tExit = "running" /\ (ToolOnComplete \/ ToolOnRecords \/ ServiceDies))
-----------------------------------------------------------------------------
(***************************************************************************)
(* hisysevent -l ends by itself although its main thread waits for a       *)
(* notification that never comes: from valid arguments on, the process     *)
(* comes to its exit in OnComplete, also when the query is complete before *)
(* the main thread waits.  It hangs only if the service refused the query  *)
(* or is not there or dies: DoAction reports success in every case.        *)
(***************************************************************************)
ToolEnds ==
  tPc = "act" /\ tArg.history
    ~> tExit = "complete" \/ tService # "up" \/ (tPc = "wait" /\ tRequest = "none")
=============================================================================
