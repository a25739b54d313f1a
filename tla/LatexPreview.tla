---------------------------- MODULE LatexPreview -----------------------------
(***************************************************************************)
(* The live preview of the LaTeX editor: the debounced, serialized         *)
(* compile() of components/Publications/LatexEditor.tsx over the           *)
(* LatexCompiler of lib/latexCompiler.ts and its web worker.  A source is  *)
(* the contents of all buffers.                                            *)
(***************************************************************************)
EXTENDS Naturals

CONSTANTS
    Source,
    Broken,      \* sources that do not compile
    NoSource,
    MaxEdits     \* bound: changes of the sources

ASSUME LatexPreviewAssumption ==
    Broken \subseteq Source /\ NoSource \notin Source /\ MaxEdits \in Nat

VARIABLES
    src,        \* buffersRef
    edits,      \* bound: changes made
    opened,     \* ready: the project is loaded
    auto,       \* autoCompile
    paneAuto,   \* autoCompile as the mounted CodeMirror pane's onChange closed over it
    timer,      \* compileTimerRef is armed
    again,      \* pendingCompileRef
    request,    \* the sources compile() took, NoSource when compilingRef is false
    step,       \* where compile() awaits
    engine,     \* LatexCompiler.ready
    pending,    \* LatexCompiler.pending: the worker has the request
    lastKey,    \* key of the cached result
    lastResult, \* the cached result
    reply,      \* how the last compile() ended
    preview,    \* the sources of the PDF on screen
    wanted      \* history: the last change was made with automatic compiling on

pvars == <<src, edits, opened, auto, paneAuto, timer, again, request, step, engine, pending,
           lastKey, lastResult, reply, preview, wanted>>
compilerVars == <<engine, pending, lastKey, lastResult>>
resultVars == <<reply, preview>>

NoReply == [src |-> NoSource, st |-> "none"]
Ran(s) == [src |-> s, st |-> IF s \in Broken THEN "failed" ELSE "pdf"]
Error(s) == [src |-> s, st |-> "error"]
Reply == [src : Source, st : {"pdf", "failed", "error"}] \cup {NoReply}

PreviewTypeOK ==
    /\ src \in Source /\ edits \in 0..MaxEdits
    /\ {opened, auto, paneAuto, timer, again, pending, wanted} \subseteq BOOLEAN
    /\ request \in Source \cup {NoSource}
    /\ step \in {"idle", "init", "wait"}
    /\ (step = "idle") = (request = NoSource)
    /\ engine \in {"none", "starting", "ok", "failed"}
    /\ lastKey \in Source \cup {NoSource} /\ lastResult \in Reply
    /\ reply \in Reply
    /\ preview \in Source \cup {NoSource}

PreviewInit ==
    /\ src \in Source /\ edits = 0
    /\ opened = FALSE /\ auto = TRUE /\ paneAuto = TRUE
    /\ timer = FALSE /\ again = FALSE
    /\ request = NoSource /\ step = "idle"
    /\ engine = "none" /\ pending = FALSE
    /\ lastKey = NoSource /\ lastResult = NoReply
    /\ reply = NoReply /\ preview = NoSource
    /\ wanted = FALSE

(* Mutant: a request that finds a compilation running is forgotten.        *)
CompileDropping(s) ==
    IF request # NoSource THEN UNCHANGED <<again, request, step, engine>>
    ELSE /\ request' = s /\ step' = "init"
         /\ engine' = IF engine = "none" THEN "starting" ELSE engine
         /\ UNCHANGED again

(* compile() up to its first await.                                        *)
Compile(s) ==
    IF request # NoSource THEN again' = TRUE /\ UNCHANGED <<request, step, engine>>
    ELSE /\ request' = s /\ step' = "init"
         /\ engine' = IF engine = "none" THEN "starting" ELSE engine
         /\ UNCHANGED again

CompileIf(on, s) == IF on THEN Compile(s) ELSE UNCHANGED <<again, request, step, engine>>

(* compile() from its await on: the outcome, then the compilation that     *)
(* was asked for meanwhile, of the sources as they are now.                *)
Finish(r) ==
    /\ reply' = r
    /\ preview' = IF r.st = "pdf" THEN r.src ELSE preview
    /\ again' = FALSE
    /\ request' = IF again THEN src ELSE NoSource
    /\ step' = IF again THEN "init" ELSE "idle"

Open ==
    /\ ~opened
    /\ opened' = TRUE /\ wanted' = auto
    /\ CompileIf(auto, src)
    /\ UNCHANGED <<src, edits, auto, paneAuto, timer, pending, lastKey, lastResult, resultVars>>

MarkDirty(s) ==
    /\ opened /\ s # src /\ edits < MaxEdits
    /\ src' = s /\ edits' = edits + 1
    /\ timer' = (timer \/ paneAuto) /\ wanted' = paneAuto
    /\ UNCHANGED <<opened, auto, paneAuto, again, request, step, compilerVars, resultVars>>

PullMerged(s) ==
    /\ opened /\ edits < MaxEdits
    /\ src' = s /\ edits' = edits + 1
    /\ paneAuto' = auto /\ wanted' = auto
    /\ CompileIf(auto, s)
    /\ UNCHANGED <<opened, auto, timer, pending, lastKey, lastResult, resultVars>>

ToggleAuto ==
    /\ opened
    /\ auto' = ~auto
    /\ UNCHANGED <<src, edits, opened, paneAuto, timer, again, request, step, compilerVars, resultVars, wanted>>

(* Another file is selected: the new pane closes over autoCompile as it is.*)
SelectPath ==
    /\ opened /\ paneAuto # auto
    /\ paneAuto' = auto
    /\ UNCHANGED <<src, edits, opened, auto, timer, again, request, step, compilerVars, resultVars, wanted>>

TimerFires ==
    /\ timer
    /\ timer' = FALSE
    /\ Compile(src)
    /\ UNCHANGED <<src, edits, opened, auto, paneAuto, pending, lastKey, lastResult, resultVars, wanted>>

CompileManually ==
    /\ opened /\ request = NoSource
    /\ Compile(src)
    /\ UNCHANGED <<src, edits, opened, auto, paneAuto, timer, pending, lastKey, lastResult, resultVars, wanted>>

-----------------------------------------------------------------------------

editing == <<src, edits, opened, auto, paneAuto, timer, wanted>>

EngineLoads ==
    /\ engine = "starting"
    /\ engine' \in {"ok", "failed"}
    /\ UNCHANGED <<editing, again, request, step, pending, lastKey, lastResult, resultVars>>

(* Mutant: the fast path does not compare the key.                         *)
DispatchAnyKey ==
    /\ step = "init" /\ engine = "ok"
    /\ IF lastKey # NoSource
       THEN Finish(lastResult) /\ UNCHANGED pending
       ELSE /\ pending' = TRUE
            /\ step' = "wait"
            /\ UNCHANGED <<again, request, resultVars>>
    /\ UNCHANGED <<editing, engine, lastKey, lastResult>>

(* compile() of the compiler once init() has resolved.                     *)
Dispatch ==
    /\ step = "init" /\ engine = "ok"
    /\ IF request = lastKey
       THEN Finish(lastResult) /\ UNCHANGED pending
       ELSE /\ pending' = TRUE
            /\ step' = "wait"
            /\ UNCHANGED <<again, request, resultVars>>
    /\ UNCHANGED <<editing, engine, lastKey, lastResult>>

(* The rejected promise stays in `ready`: every later call ends here too.  *)
RejectInit ==
    /\ step = "init" /\ engine = "failed"
    /\ Finish(Error(request))
    /\ UNCHANGED <<editing, compilerVars>>

(* The worker posts a result: only a PDF is cached, a failure clears the   *)
(* cached key.                                                             *)
EngineAnswers ==
    /\ pending
    /\ pending' = FALSE
    /\ LET ok == request \notin Broken
       IN /\ lastKey' = IF ok THEN request ELSE NoSource
          /\ lastResult' = IF ok THEN Ran(request) ELSE lastResult
    /\ Finish(Ran(request))
    /\ UNCHANGED <<editing, engine>>

(* It posts an exception, or an error event rejects the promise.           *)
EngineThrows ==
    /\ pending
    /\ pending' = FALSE
    /\ Finish(Error(request))
    /\ UNCHANGED <<editing, engine, lastKey, lastResult>>

(* The cleanup of the editor's effect, and terminate() of the compiler.    *)
Unmount ==
    /\ opened
    /\ opened' = FALSE /\ auto' = TRUE /\ paneAuto' = TRUE
    /\ timer' = FALSE /\ again' = FALSE
    /\ request' = NoSource /\ step' = "idle"
    /\ engine' = "none" /\ pending' = FALSE
    /\ lastKey' = NoSource /\ lastResult' = NoReply
    /\ reply' = NoReply /\ preview' = NoSource
    /\ wanted' = FALSE
    /\ UNCHANGED <<src, edits>>

PreviewNext ==
    \/ Open \/ ToggleAuto \/ SelectPath \/ TimerFires \/ CompileManually
    \/ \E s \in Source : MarkDirty(s) \/ PullMerged(s)
    \/ EngineLoads \/ Dispatch \/ RejectInit \/ EngineAnswers \/ EngineThrows
    \/ Unmount

(* Timers fire, promises resolve, and the worker answers every message:    *)
(* its handler posts the result or the exception.                          *)
PreviewFairness ==
    /\ WF_pvars(TimerFires) /\ WF_pvars(EngineLoads)
    /\ WF_pvars(Dispatch) /\ WF_pvars(RejectInit)
    /\ WF_pvars(EngineAnswers \/ EngineThrows)

PreviewSpec == PreviewInit /\ [][PreviewNext]_pvars /\ PreviewFairness

-----------------------------------------------------------------------------

(* compile(), with the cached results and the worker behind it, is the     *)
(* service of CompileService: an outcome always belongs to the sources it  *)
(* was asked for, whatever was cached, and no request is left hanging.     *)
Service ==
    INSTANCE CompileService WITH
        Source <- Source, Broken <- Broken, NoSource <- NoSource,
        request <- request, reply <- reply
ImplementsService == Service!ServiceSpec

(* A change made with automatic compiling on does not stay behind in the   *)
(* preview: some compilation of the sources as they then are does end.     *)
PreviewCatchesUp == []<>(wanted => reply.src = src)

=============================================================================
