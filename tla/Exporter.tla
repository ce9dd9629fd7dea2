------------------------------ MODULE Exporter ------------------------------
(***************************************************************************)
(* PSSExporter.export of exporter.py: options are checked, the design is   *)
(* scanned and validated, its findings are routed to the compiler's        *)
(* message handler, and up to three files are rendered and written one     *)
(* after the other.  Each step may raise; nothing is undone when one does. *)
(*                                                                         *)
(* Exports are repeated into the same place, as a build does, so an export *)
(* meets the files of the ones before it.  What a file holds is the number *)
(* of the export that opened it, the stage that did, and whether the whole *)
(* text got there: open() truncates before anything is written.            *)
(*                                                                         *)
(* A design is what the stages before the files look at: the severities of *)
(* its findings in order, and whether the Validator's assertions fail.     *)
(***************************************************************************)
EXTENDS Naturals, Sequences, Functions

CONSTANTS
  Designs,      \* designs: [findings, inconsistent]
  Requests,     \* arguments of export(): [node, typeStyle, emitEnums, offsetMode,
                \*   strict, top, sidecar]
  NoSidecar,    \* sidecar_path = None
  MaxExports    \* bound on the exports into one place

Severities == {"error", "warning", "info"}

ASSUME DesignsAssumption ==
  \A d \in Designs : d.findings \in Seq(Severities) /\ d.inconsistent \in BOOLEAN
ASSUME RequestsAssumption ==
  \A r \in Requests : r.strict \in BOOLEAN /\ r.top \in BOOLEAN
ASSUME MaxExportsAssumption == MaxExports \in Nat

VARIABLES
  number,   \* exports started so far
  request,  \* the arguments of the last one
  design,   \* the design it was given
  step,     \* what it does next; "idle" between exports
  routed,   \* the severities its report() has passed on
  outcome,  \* how it ended; "running" until then
  files,    \* path -> what the file there holds
  before    \* history: files when the export started

vars == <<number, request, design, step, routed, outcome, files, before>>

----------------------------------------------------------------------------
\* The node is the root or an address map, and options.validate() passes: three
\* choices are of a known kind and of one that is implemented.
Supported(r) ==
  /\ r.node \in {"root", "addrmap"}
  /\ r.typeStyle \in {"lexical", "hier"}
  /\ r.emitEnums \in {"const", "off"}
  /\ r.offsetMode = "instance"

\* The files of an export, and those of this one.
Stages == {"package", "top", "sidecar"}

Wanted == {stage \in Stages : /\ stage = "top" => request.top
                              /\ stage = "sidecar" => request.sidecar # NoSidecar}

\* top_path and sidecar_path; the caller may give any path for the latter.
PackagePath == "regs.pss"
TopPath == "regs_top.pss"
PathOf(stage) ==
  CASE stage = "package" -> PackagePath
    [] stage = "top" -> TopPath
    [] stage = "sidecar" -> request.sidecar

\* What follows the report and each file: the next file, or the return.
AfterTopFirst(stage) ==  \* mutant: the wrapper before the package
  IF stage = "report" /\ request.top THEN "top"
  ELSE IF stage \in {"report", "top"} THEN "package"
  ELSE IF stage = "package" /\ "sidecar" \in Wanted THEN "sidecar" ELSE "idle"

AfterSidecarEarly(stage) ==  \* mutant: the sidecar before the files it describes
  IF stage = "report" /\ "sidecar" \in Wanted THEN "sidecar"
  ELSE IF stage \in {"report", "sidecar"} THEN "package"
  ELSE IF stage = "package" /\ "top" \in Wanted THEN "top" ELSE "idle"

After(stage) ==
  IF stage = "report" THEN "package"
  ELSE IF stage = "package" /\ "top" \in Wanted THEN "top"
  ELSE IF stage # "sidecar" /\ "sidecar" \in Wanted THEN "sidecar" ELSE "idle"

EffectiveSeverityLax(severity) == severity  \* mutant: strict is ignored

\* Finding.effective_severity.
EffectiveSeverity(severity) ==
  IF request.strict /\ severity = "warning" THEN "error" ELSE severity

EndsNot(how) == outcome' = how /\ UNCHANGED step  \* mutant: noted, not raised

Ends(how) == outcome' = how /\ step' = "idle"

----------------------------------------------------------------------------
Init ==
  /\ number = 0
  /\ request \in Requests
  /\ design \in Designs
  /\ step = "idle"
  /\ routed = << >>
  /\ outcome = "returned"
  /\ files = << >>
  /\ before = << >>

\* A call of export(), up to options.validate().
Begin(r, d) ==
  /\ step = "idle"
  /\ number < MaxExports
  /\ number' = number + 1
  /\ request' = r
  /\ design' = d
  /\ routed' = << >>
  /\ before' = files
  /\ IF Supported(r) THEN step' = "build" /\ outcome' = "running"
                     ELSE Ends("rejected")
  /\ UNCHANGED files

\* build(): the scan, then the Validator's assertions.
Build ==
  /\ step = "build"
  /\ IF design.inconsistent THEN Ends("asserted")
                            ELSE step' = "report" /\ UNCHANGED outcome
  /\ UNCHANGED <<number, request, design, routed, files, before>>

RouteToFirstError ==  \* mutant: the loop raises as soon as it meets an error
  /\ step = "report"
  /\ Len(routed) < Len(design.findings)
  /\ routed' = Append(routed, EffectiveSeverity(design.findings[Len(routed) + 1]))
  /\ IF routed'[Len(routed')] = "error" THEN Ends("refused") ELSE UNCHANGED <<step, outcome>>
  /\ UNCHANGED <<number, request, design, files, before>>

\* One iteration of report().
Route ==
  /\ step = "report"
  /\ Len(routed) < Len(design.findings)
  /\ routed' = Append(routed, EffectiveSeverity(design.findings[Len(routed) + 1]))
  /\ UNCHANGED <<number, request, design, step, outcome, files, before>>

Refused == "error" \in Range(routed)

Opened(stage) == [file \in DOMAIN files \cup {PathOf(stage)} |->
  IF file = PathOf(stage) THEN [number |-> number, stage |-> stage, whole |-> FALSE]
                          ELSE files[file]]

JudgeWhileOpen ==  \* mutant: the output is opened before the verdict
  /\ step = "report"
  /\ Len(routed) = Len(design.findings)
  /\ files' = Opened("package")
  /\ IF Refused THEN Ends("refused") ELSE step' = After("report") /\ UNCHANGED outcome
  /\ UNCHANGED <<number, request, design, routed, before>>

\* The end of report(): raise if there was an error.
Judge ==
  /\ step = "report"
  /\ Len(routed) = Len(design.findings)
  /\ IF Refused THEN Ends("refused") ELSE step' = After("report") /\ UNCHANGED outcome
  /\ UNCHANGED <<number, request, design, routed, files, before>>

IsOpen(stage) ==
  /\ PathOf(stage) \in DOMAIN files
  /\ files[PathOf(stage)] = [number |-> number, stage |-> stage, whole |-> FALSE]

\* The text is rendered and its file opened, which empties it.
Open(stage) ==
  /\ step = stage
  /\ ~IsOpen(stage)
  /\ files' = Opened(stage)
  /\ UNCHANGED <<number, request, design, step, routed, outcome, before>>

\* The text is written and the file closed; then the next file or the return.
Write(stage) ==
  /\ step = stage
  /\ IsOpen(stage)
  /\ files' = [files EXCEPT ![PathOf(stage)].whole = TRUE]
  /\ IF After(stage) = "idle" THEN Ends("returned") ELSE step' = After(stage) /\ UNCHANGED outcome
  /\ UNCHANGED <<number, request, design, routed, before>>

\* A template or the operating system raises, before the file is opened or
\* after: nothing catches it and nothing is cleaned up.
Fail(stage) ==
  /\ step = stage
  /\ Ends("failed")
  /\ UNCHANGED <<number, request, design, routed, files, before>>

\* The program's own next step.
Proceed ==
  \/ Build
  \/ Route
  \/ Judge
  \/ \E stage \in Stages : Open(stage) \/ Write(stage)

Next ==
  \/ \E r \in Requests, d \in Designs : Begin(r, d)
  \/ Proceed
  \/ \E stage \in Stages : Fail(stage)

Spec == Init /\ [][Next]_vars

----------------------------------------------------------------------------
Raised == {"rejected", "asserted", "refused", "failed"}

\* An export is idle, in the build or the report, or at one of the files it was
\* asked for; files were written by exports that have started.
ExporterTypeOK ==
  /\ number \in 0 .. MaxExports
  /\ step \in {"idle", "build", "report"} \cup Wanted
  /\ outcome \in Raised \cup {"running", "returned"}
  /\ step = "idle" <=> outcome # "running"
  /\ \A file \in DOMAIN files : files[file].number \in 1 .. number

\* A refused design, an invalid option or a failed assertion leaves every file
\* of earlier exports as it was: the verdict is known before a file is opened.
RefusalWritesNothing ==
  outcome \in {"rejected", "asserted", "refused"} => files = before

\* An export returns only if nothing it reported counts as an error under the
\* options it was given, and then each file it was asked for is whole and its
\* own, unless a later file of the same export was given the same path.
ReturnMeansWritten ==
  outcome = "returned" /\ number > 0 =>
    /\ "error" \notin Range(design.findings)
    /\ request.strict => "warning" \notin Range(design.findings)
    /\ \A stage \in Wanted :
         (stage # "sidecar" => request.sidecar # PathOf(stage)) =>
           /\ PathOf(stage) \in DOMAIN files
           /\ files[PathOf(stage)] = [number |-> number, stage |-> stage, whole |-> TRUE]

\* "A design with three problems reports all three in one invocation"
\* (exporter.py:142-143): an export that gets past its report, or is refused by
\* it, has passed on every finding, each in its place and under the severity
\* the options give it, and it is refused exactly when one counts as an error.
EveryFindingRouted ==
  outcome \in {"returned", "refused", "failed"} /\ number > 0 =>
    /\ Len(routed) = Len(design.findings)
    /\ \A i \in DOMAIN design.findings : routed[i] = EffectiveSeverity(design.findings[i])
    /\ outcome = "refused" <=>
         \E i \in DOMAIN design.findings :
           \/ design.findings[i] = "error"
           \/ request.strict /\ design.findings[i] = "warning"

\* The wrapper imports the package beside it: whatever fails in whichever
\* export, the wrapper on disk is never newer than the package on disk, and
\* while a package is being replaced no wrapper of that export exists.
WrapperNotNewer ==
  LET wrappers == {f \in DOMAIN files : files[f].stage = "top"}
  IN  \A f \in wrappers :
        /\ PackagePath \in DOMAIN files
        /\ files[f].number <= files[PackagePath].number
        /\ \/ files[PackagePath].whole
           \/ files[PackagePath].stage = "sidecar"
           \/ files[f].number < files[PackagePath].number

\* The sidecar records what a package cannot say (exporter.py:171): whatever
\* fails in whichever export, no sidecar on disk is newer than what is at the
\* path of the package, and it is there only once the package of its own export
\* was written whole.  A sidecar that was itself given that path has none.
SidecarNotNewer ==
  LET sidecars == {f \in DOMAIN files : files[f].stage = "sidecar"} \ {PackagePath}
  IN  \A f \in sidecars :
        /\ PackagePath \in DOMAIN files
        /\ files[f].number <= files[PackagePath].number
        /\ files[f].number = files[PackagePath].number =>
             files[PackagePath].stage = "package" /\ files[PackagePath].whole
=============================================================================
