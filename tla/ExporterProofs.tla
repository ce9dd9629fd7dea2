---------------------------- MODULE ExporterProofs ----------------------------
(***************************************************************************)
(* The invariants of Exporter, for any designs, any arguments, any path of *)
(* the sidecar and any number of exports into one place.                   *)
(*                                                                         *)
(* The inductive invariant has four parts beside the types: what of the    *)
(* findings report() has passed on, as far as it got; that no file changes *)
(* before the report is over; what the files hold at each step, from which *)
(* it follows that a wrapper is opened only beside the whole package of    *)
(* the same export; and that an export has one sidecar, beside that too.   *)
(***************************************************************************)
EXTENDS Exporter, TLAPS

File == [number : 1 .. number, stage : Stages, whole : BOOLEAN]

Types ==
  /\ number \in 0 .. MaxExports
  /\ request \in Requests
  /\ design \in Designs
  /\ step \in {"idle", "build", "report"} \cup Wanted
  /\ outcome \in Raised \cup {"running", "returned"}
  /\ step = "idle" <=> outcome # "running"
  /\ step # "idle" => number # 0
  /\ routed \in Seq(Severities)
  /\ \A f \in DOMAIN files : files[f] \in File

\* report() is over, and no finding counted as an error.
AllRouted == Len(routed) = Len(design.findings)

RoutedInv ==
  /\ Len(routed) <= Len(design.findings)
  /\ \A i \in DOMAIN routed : routed[i] = EffectiveSeverity(design.findings[i])
  /\ step \in Stages => AllRouted /\ ~Refused
  /\ outcome \in {"returned", "failed"} /\ number # 0 => AllRouted /\ ~Refused
  /\ outcome = "refused" => AllRouted /\ Refused

UntouchedInv ==
  step \in {"build", "report"} \/ outcome \in {"rejected", "asserted", "refused"} =>
    files = before

\* The file of a stage is whole and this export's own.
Kept(stage) ==
  /\ PathOf(stage) \in DOMAIN files
  /\ files[PathOf(stage)] = [number |-> number, stage |-> stage, whole |-> TRUE]

Shadowed(stage) == stage # "sidecar" /\ request.sidecar = PathOf(stage)

FilesInv ==
  /\ \A f \in DOMAIN files : /\ files[f].stage = "package" => f = PackagePath
                             /\ files[f].stage = "top" => f = TopPath
  /\ step \in {"build", "report"} => \A f \in DOMAIN files : files[f].number < number
  /\ step = "package" =>
       \A f \in DOMAIN files : f # PackagePath => files[f].number < number
  /\ step = "top" => Kept("package")
  /\ step = "sidecar" =>
       \A stage \in Wanted : stage # "sidecar" /\ ~Shadowed(stage) => Kept(stage)
  /\ outcome = "returned" /\ number # 0 =>
       \A stage \in Wanted : ~Shadowed(stage) => Kept(stage)
  /\ WrapperNotNewer

\* An export has one sidecar; it is opened beside the whole package.
SidecarInv ==
  /\ \A f \in DOMAIN files :
       files[f].stage = "sidecar" /\ files[f].number = number => f = request.sidecar
  /\ SidecarNotNewer

ExporterInv == Types /\ RoutedInv /\ UntouchedInv /\ FilesInv /\ SidecarInv

----------------------------------------------------------------------------
LEMMA DesignFacts ==
  ASSUME NEW d \in Designs
  PROVE  /\ d.findings \in Seq(Severities)
         /\ Len(d.findings) \in Nat
         /\ DOMAIN d.findings = 1 .. Len(d.findings)
         /\ \A i \in DOMAIN d.findings : d.findings[i] \in Severities
<1>1. d.findings \in Seq(Severities)
  BY DesignsAssumption
<1> QED BY <1>1

LEMMA SeverityFacts ==
  ASSUME NEW s \in Severities
  PROVE  EffectiveSeverity(s) \in Severities
BY DEF EffectiveSeverity, Severities

LEMMA ExporterInit == Init => ExporterInv
<1> SUFFICES ASSUME Init PROVE ExporterInv
  OBVIOUS
<1>1. /\ number = 0 /\ step = "idle" /\ outcome = "returned"
      /\ routed = << >> /\ files = << >> /\ before = << >>
      /\ request \in Requests /\ design \in Designs
      /\ DOMAIN files = {}
  BY DEF Init
<1>2. Types
  BY <1>1, MaxExportsAssumption DEF Types, Raised
<1>3. RoutedInv
  BY <1>1, DesignFacts DEF RoutedInv, Stages
<1>4. UntouchedInv
  BY <1>1 DEF UntouchedInv
<1>5. FilesInv
  BY <1>1 DEF FilesInv, WrapperNotNewer
<1>6. SidecarInv
  BY <1>1 DEF SidecarInv, SidecarNotNewer
<1> QED BY <1>2, <1>3, <1>4, <1>5, <1>6 DEF ExporterInv

LEMMA BeginStep ==
  ASSUME ExporterInv, NEW r \in Requests, NEW d \in Designs, Begin(r, d)
  PROVE  ExporterInv'
<1>1. /\ step = "idle" /\ number < MaxExports /\ number' = number + 1
      /\ request' = r /\ design' = d /\ routed' = << >> /\ before' = files
      /\ files' = files
      /\ \/ step' = "build" /\ outcome' = "running"
         \/ step' = "idle" /\ outcome' = "rejected"
  BY DEF Begin, Ends
<1>2. number \in Nat /\ number' \in 1 .. MaxExports /\ number < number'
  BY <1>1, MaxExportsAssumption DEF ExporterInv, Types
<1>3. \A f \in DOMAIN files : /\ files[f] \in File /\ files[f].number \in 1 .. number
                              /\ files[f].number < number'
  BY <1>2 DEF ExporterInv, Types, File
<1>4. Types'
  <2>1. \A f \in DOMAIN files : files[f] \in File'
    BY <1>2, <1>3 DEF File
  <2> QED BY <1>1, <1>2, <2>1 DEF Types, Raised
<1>5. RoutedInv'
  <2>1. 0 <= Len(design'.findings)
    BY <1>1, DesignFacts
  <2> QED BY <1>1, <2>1 DEF RoutedInv, Stages
<1>6. UntouchedInv'
  BY <1>1 DEF UntouchedInv
<1>7. FilesInv'
  BY <1>1, <1>3 DEF ExporterInv, FilesInv, WrapperNotNewer
<1>8. SidecarInv'
  BY <1>1, <1>3 DEF ExporterInv, SidecarInv, SidecarNotNewer
<1> QED BY <1>4, <1>5, <1>6, <1>7, <1>8 DEF ExporterInv

LEMMA BuildStep == ExporterInv /\ Build => ExporterInv'
<1> SUFFICES ASSUME ExporterInv, Build PROVE ExporterInv'
  OBVIOUS
<1>1. /\ step = "build"
      /\ UNCHANGED <<number, request, design, routed, files, before>>
      /\ \/ step' = "idle" /\ outcome' = "asserted"
         \/ step' = "report" /\ outcome' = outcome
  BY DEF Build, Ends
<1>2. outcome = "running" /\ number # 0
  BY <1>1 DEF ExporterInv, Types
<1>3. Types'
  BY <1>1, <1>2 DEF ExporterInv, Types, Raised, File, Wanted
<1>4. RoutedInv'
  BY <1>1, <1>2 DEF ExporterInv, RoutedInv, Stages, AllRouted, Refused, EffectiveSeverity
<1>5. UntouchedInv'
  BY <1>1 DEF ExporterInv, UntouchedInv
<1>6. FilesInv'
  BY <1>1, <1>2 DEF ExporterInv, FilesInv, WrapperNotNewer
<1>7. SidecarInv'
  BY <1>1 DEF ExporterInv, SidecarInv, SidecarNotNewer
<1> QED BY <1>3, <1>4, <1>5, <1>6, <1>7 DEF ExporterInv

LEMMA RouteStep == ExporterInv /\ Route => ExporterInv'
<1> SUFFICES ASSUME ExporterInv, Route PROVE ExporterInv'
  OBVIOUS
<1>1. /\ step = "report" /\ Len(routed) < Len(design.findings)
      /\ routed' = Append(routed, EffectiveSeverity(design.findings[Len(routed) + 1]))
      /\ UNCHANGED <<number, request, design, step, outcome, files, before>>
  BY DEF Route
<1>2. outcome = "running" /\ routed \in Seq(Severities) /\ design \in Designs
  BY <1>1 DEF ExporterInv, Types
<1>3. PICK k : k = Len(routed) + 1 /\ k \in DOMAIN design.findings /\ k \in Nat
  BY <1>1, <1>2, DesignFacts
<1>4. EffectiveSeverity(design.findings[k]) \in Severities
  BY <1>2, <1>3, DesignFacts, SeverityFacts
<1>5. /\ routed' \in Seq(Severities) /\ Len(routed') = k
      /\ DOMAIN routed = 1 .. Len(routed) /\ DOMAIN routed' = 1 .. k
      /\ \A i \in DOMAIN routed : routed'[i] = routed[i]
      /\ routed'[k] = EffectiveSeverity(design.findings[k])
  BY <1>1, <1>2, <1>3, <1>4
<1>6. Types'
  BY <1>1, <1>5 DEF ExporterInv, Types, File, Wanted
<1>7. RoutedInv'
  <2>1. ASSUME NEW i \in DOMAIN routed'
        PROVE  routed'[i] = EffectiveSeverity(design.findings[i])
    <3>1. i \in DOMAIN routed \/ i = k
      BY <1>2, <1>3, <1>5
    <3> QED BY <1>5, <3>1 DEF ExporterInv, RoutedInv
  <2>2. Len(routed') <= Len(design'.findings)
    BY <1>1, <1>2, <1>3, <1>5, DesignFacts
  <2> QED BY <1>1, <1>2, <2>1, <2>2 DEF RoutedInv, Stages, EffectiveSeverity
<1>8. UntouchedInv'
  BY <1>1 DEF ExporterInv, UntouchedInv
<1>9. FilesInv'
  BY <1>1 DEF ExporterInv, FilesInv, WrapperNotNewer, Kept, Shadowed, Wanted, PathOf
<1>10. SidecarInv'
  BY <1>1 DEF ExporterInv, SidecarInv, SidecarNotNewer
<1> QED BY <1>6, <1>7, <1>8, <1>9, <1>10 DEF ExporterInv

LEMMA JudgeStep == ExporterInv /\ Judge => ExporterInv'
<1> SUFFICES ASSUME ExporterInv, Judge PROVE ExporterInv'
  OBVIOUS
<1>1. /\ step = "report" /\ AllRouted
      /\ UNCHANGED <<number, request, design, routed, files, before>>
      /\ \/ Refused /\ step' = "idle" /\ outcome' = "refused"
         \/ ~Refused /\ step' = "package" /\ outcome' = outcome
  BY DEF Judge, Ends, After, AllRouted
<1>2. outcome = "running" /\ number # 0 /\ "package" \in Wanted
  BY <1>1 DEF ExporterInv, Types, Wanted, Stages
<1>3. Types'
  BY <1>1, <1>2 DEF ExporterInv, Types, Raised, File, Wanted
<1>4. RoutedInv'
  BY <1>1, <1>2 DEF ExporterInv, RoutedInv, Stages, AllRouted, Refused, EffectiveSeverity
<1>5. UntouchedInv'
  BY <1>1, <1>2 DEF ExporterInv, UntouchedInv
<1>6. FilesInv'
  BY <1>1, <1>2 DEF ExporterInv, FilesInv, WrapperNotNewer
<1>7. SidecarInv'
  BY <1>1 DEF ExporterInv, SidecarInv, SidecarNotNewer
<1> QED BY <1>3, <1>4, <1>5, <1>6, <1>7 DEF ExporterInv

----------------------------------------------------------------------------
\* The files of an export have different paths, but for the sidecar's.
LEMMA Paths ==
  /\ PathOf("package") = PackagePath
  /\ PathOf("top") = TopPath
  /\ PathOf("sidecar") = request.sidecar
  /\ PackagePath # TopPath
BY DEF PathOf, PackagePath, TopPath

LEMMA OpenStep ==
  ASSUME ExporterInv, NEW stage \in Stages, Open(stage)
  PROVE  ExporterInv'
<1>1. /\ step = stage /\ files' = Opened(stage)
      /\ UNCHANGED <<number, request, design, step, routed, outcome, before>>
  BY DEF Open
<1>2. outcome = "running" /\ number # 0 /\ number \in Nat /\ step \in Wanted
      /\ MaxExports \in Nat
  BY <1>1, MaxExportsAssumption DEF ExporterInv, Types, Stages
<1>3. PICK p, file :
        /\ p = PathOf(stage)
        /\ file = [number |-> number, stage |-> stage, whole |-> FALSE]
  OBVIOUS
<1>4. /\ DOMAIN files' = DOMAIN files \cup {p}
      /\ files'[p] = file
      /\ \A f \in DOMAIN files : f # p => files'[f] = files[f]
  BY <1>1, <1>3 DEF Opened
<1>5. /\ file \in File /\ file.number = number /\ file.stage = stage
      /\ number \in 1 .. number
  BY <1>2, <1>3 DEF File
<1>6. Types'
  <2>1. File' = File
    BY <1>1 DEF File
  <2>2. \A f \in DOMAIN files' : files'[f] \in File'
    BY <1>4, <1>5, <2>1 DEF ExporterInv, Types
  <2> QED BY <1>1, <2>2 DEF ExporterInv, Types, Wanted
<1>7. RoutedInv'
  BY <1>1 DEF ExporterInv, RoutedInv, AllRouted, Refused, EffectiveSeverity
<1>8. UntouchedInv'
  BY <1>1, <1>2 DEF UntouchedInv, Stages
<1>9. \A f \in DOMAIN files : files[f] \in File /\ files[f].number \in 1 .. number
  BY DEF ExporterInv, Types, File
<1>10. /\ \A f \in DOMAIN files : /\ files[f].stage = "package" => f = PackagePath
                                  /\ files[f].stage = "top" => f = TopPath
       /\ \A f \in DOMAIN files : files[f].stage = "top" =>
            /\ PackagePath \in DOMAIN files
            /\ files[f].number <= files[PackagePath].number
            /\ \/ files[PackagePath].whole
               \/ files[PackagePath].stage = "sidecar"
               \/ files[f].number < files[PackagePath].number
  BY DEF ExporterInv, FilesInv, WrapperNotNewer
<1>11. FilesInv'
  <2>1. CASE stage = "package"
    <3>1. p = PackagePath /\ step = "package"
      BY <1>1, <1>3, <2>1, Paths
    <3>2. \A f \in DOMAIN files : f # p => files[f].number < number
      BY <3>1 DEF ExporterInv, FilesInv
    <3>3. \A f \in DOMAIN files' : f # p => /\ f \in DOMAIN files /\ files'[f] = files[f]
                                            /\ files'[f].number < number
      BY <1>4, <3>2
    <3>4. WrapperNotNewer'
      <4> SUFFICES ASSUME NEW f \in DOMAIN files', files'[f].stage = "top"
                   PROVE  /\ PackagePath \in DOMAIN files'
                          /\ files'[f].number <= files'[PackagePath].number
                          /\ files'[f].number < files'[PackagePath].number
        BY DEF WrapperNotNewer
      <4>1. f # p
        BY <1>4, <1>5, <2>1
      <4>2. files'[p].number = number /\ PackagePath \in DOMAIN files'
        BY <1>4, <1>5, <3>1
      <4>3. files'[f].number \in Nat
        BY <1>9, <3>3, <4>1
      <4> QED BY <1>2, <3>1, <3>3, <4>1, <4>2, <4>3
    <3>5. \A f \in DOMAIN files' : /\ files'[f].stage = "package" => f = PackagePath
                                   /\ files'[f].stage = "top" => f = TopPath
      BY <1>4, <1>5, <1>10, <2>1, <3>1
    <3> QED BY <1>1, <1>2, <3>1, <3>3, <3>4, <3>5 DEF FilesInv
  <2>2. CASE stage = "top"
    <3>1. p = TopPath /\ p # PackagePath /\ step = "top"
      BY <1>1, <1>3, <2>2, Paths
    <3>2. /\ PackagePath \in DOMAIN files
          /\ files[PackagePath] = [number |-> number, stage |-> "package", whole |-> TRUE]
      BY <3>1, Paths DEF ExporterInv, FilesInv, Kept
    <3>3. PackagePath \in DOMAIN files' /\ files'[PackagePath] = files[PackagePath]
      BY <1>4, <3>1, <3>2
    <3>4. WrapperNotNewer'
      <4> SUFFICES ASSUME NEW f \in DOMAIN files', files'[f].stage = "top"
                   PROVE  /\ PackagePath \in DOMAIN files'
                          /\ files'[f].number <= files'[PackagePath].number
                          /\ files'[PackagePath].whole
        BY DEF WrapperNotNewer
      <4>1. files'[f].number <= number
        BY <1>2, <1>4, <1>5, <1>9
      <4> QED BY <3>2, <3>3, <4>1
    <3>5. \A f \in DOMAIN files' : /\ files'[f].stage = "package" => f = PackagePath
                                   /\ files'[f].stage = "top" => f = TopPath
      BY <1>4, <1>5, <1>10, <2>2, <3>1
    <3>6. Kept("package")'
      BY <1>1, <3>2, <3>3, Paths DEF Kept, PathOf
    <3> QED BY <1>1, <1>2, <3>1, <3>4, <3>5, <3>6 DEF FilesInv
  <2>3. CASE stage = "sidecar"
    <3>1. p = request.sidecar /\ step = "sidecar"
      BY <1>1, <1>3, <2>3, Paths
    <3>2. WrapperNotNewer'
      <4> SUFFICES ASSUME NEW f \in DOMAIN files', files'[f].stage = "top"
                   PROVE  /\ PackagePath \in DOMAIN files'
                          /\ files'[f].number <= files'[PackagePath].number
                          /\ \/ files'[PackagePath].whole
                             \/ files'[PackagePath].stage = "sidecar"
                             \/ files'[f].number < files'[PackagePath].number
        BY DEF WrapperNotNewer
      <4>1. f # p /\ f \in DOMAIN files /\ files'[f] = files[f]
        BY <1>4, <1>5, <2>3
      <4>2. CASE p = PackagePath
        BY <1>2, <1>4, <1>5, <1>9, <2>3, <4>1, <4>2
      <4>3. CASE p # PackagePath
        BY <1>4, <1>10, <4>1, <4>3
      <4> QED BY <4>2, <4>3
    <3>3. \A f \in DOMAIN files' : /\ files'[f].stage = "package" => f = PackagePath
                                   /\ files'[f].stage = "top" => f = TopPath
      BY <1>4, <1>5, <1>10, <2>3
    <3>4. ASSUME NEW s \in Wanted, s # "sidecar", ~Shadowed(s)
          PROVE  Kept(s)'
      <4>1. Kept(s)
        BY <3>1, <3>4 DEF ExporterInv, FilesInv
      <4>2. PathOf(s)' = PathOf(s) /\ PathOf(s) # p
        BY <1>1, <3>1, <3>4 DEF PathOf, Shadowed
      <4> QED BY <1>1, <1>4, <4>1, <4>2 DEF Kept
    <3>5. Wanted' = Wanted /\ \A s \in Wanted : Shadowed(s)' <=> Shadowed(s)
      BY <1>1 DEF Wanted, Shadowed, PathOf
    <3> QED BY <1>1, <1>2, <3>1, <3>2, <3>3, <3>4, <3>5 DEF FilesInv
  <2> QED BY <2>1, <2>2, <2>3 DEF Stages
<1>12. SidecarInv'
  <2>1. \A f \in DOMAIN files : files[f].stage = "sidecar" =>
          /\ files[f].number = number => f = request.sidecar
          /\ f # PackagePath =>
               /\ PackagePath \in DOMAIN files
               /\ files[f].number <= files[PackagePath].number
               /\ files[f].number = files[PackagePath].number =>
                    files[PackagePath].stage = "package" /\ files[PackagePath].whole
    BY DEF ExporterInv, SidecarInv, SidecarNotNewer
  <2>2. \A f \in DOMAIN files' :
          files'[f].stage = "sidecar" /\ files'[f].number = number => f = request.sidecar
    BY <1>3, <1>4, <1>5, <2>1, Paths
  <2>3. ASSUME NEW f \in DOMAIN files', files'[f].stage = "sidecar", f # PackagePath
        PROVE  /\ PackagePath \in DOMAIN files'
               /\ files'[f].number <= files'[PackagePath].number
               /\ files'[f].number = files'[PackagePath].number =>
                    files'[PackagePath].stage = "package" /\ files'[PackagePath].whole
    <3>1. CASE p = PackagePath
      <4>1. f \in DOMAIN files /\ files'[f] = files[f] /\ files[f].number \in 1 .. number
        BY <1>4, <1>9, <2>3, <3>1
      <4>2. files[f].number # number
        <5>1. CASE stage = "package"
          BY <1>1, <2>3, <4>1, <5>1 DEF ExporterInv, FilesInv
        <5>2. CASE stage # "package"
          <6>1. p = request.sidecar
            BY <1>3, <3>1, <5>2, Paths DEF Stages
          <6> QED BY <2>1, <2>3, <3>1, <4>1, <6>1
        <5> QED BY <5>1, <5>2
      <4>3. files'[PackagePath].number = number /\ PackagePath \in DOMAIN files'
        BY <1>4, <1>5, <3>1
      <4> QED BY <1>2, <4>1, <4>2, <4>3
    <3>2. CASE p # PackagePath /\ f = p
      <4>1. stage = "sidecar" /\ request.sidecar # PackagePath
        BY <1>3, <1>4, <1>5, <2>3, <3>2, Paths
      <4>2. Kept("package")
        BY <1>1, <4>1, Paths DEF ExporterInv, FilesInv, Shadowed, Wanted, Stages
      <4>3. /\ PackagePath \in DOMAIN files' /\ files'[PackagePath] = files[PackagePath]
            /\ files[PackagePath] = [number |-> number, stage |-> "package", whole |-> TRUE]
        BY <1>4, <3>2, <4>2, Paths DEF Kept
      <4> QED BY <1>2, <1>4, <1>5, <3>2, <4>3
    <3>3. CASE p # PackagePath /\ f # p
      BY <1>4, <2>1, <2>3, <3>3
    <3> QED BY <3>1, <3>2, <3>3
  <2> QED BY <1>1, <2>2, <2>3 DEF SidecarInv, SidecarNotNewer
<1> QED BY <1>6, <1>7, <1>8, <1>11, <1>12 DEF ExporterInv

LEMMA FailStep ==
  ASSUME ExporterInv, NEW stage \in Stages, Fail(stage)
  PROVE  ExporterInv'
<1>1. /\ step = stage /\ step' = "idle" /\ outcome' = "failed"
      /\ UNCHANGED <<number, request, design, routed, files, before>>
  BY DEF Fail, Ends
<1>2. Types'
  BY <1>1 DEF ExporterInv, Types, Raised, File
<1>3. RoutedInv'
  BY <1>1 DEF ExporterInv, RoutedInv, Stages, AllRouted, Refused, EffectiveSeverity
<1>4. UntouchedInv'
  BY <1>1 DEF UntouchedInv
<1>5. FilesInv'
  BY <1>1 DEF ExporterInv, FilesInv, WrapperNotNewer
<1>6. SidecarInv'
  BY <1>1 DEF ExporterInv, SidecarInv, SidecarNotNewer
<1> QED BY <1>2, <1>3, <1>4, <1>5, <1>6 DEF ExporterInv

----------------------------------------------------------------------------
LEMMA WriteStep ==
  ASSUME ExporterInv, NEW stage \in Stages, Write(stage)
  PROVE  ExporterInv'
<1>1. /\ step = stage /\ IsOpen(stage)
      /\ files' = [files EXCEPT ![PathOf(stage)].whole = TRUE]
      /\ UNCHANGED <<number, request, design, routed, before>>
      /\ \/ After(stage) = "idle" /\ step' = "idle" /\ outcome' = "returned"
         \/ step' = After(stage) /\ After(stage) # "idle" /\ outcome' = outcome
  BY DEF Write, Ends
<1>2. /\ outcome = "running" /\ number # 0 /\ number \in Nat /\ step \in Wanted
      /\ MaxExports \in Nat
  BY <1>1, MaxExportsAssumption DEF ExporterInv, Types, Stages
<1>3. PICK p, file :
        /\ p = PathOf(stage)
        /\ file = [number |-> number, stage |-> stage, whole |-> TRUE]
  OBVIOUS
<1>4. /\ DOMAIN files' = DOMAIN files /\ p \in DOMAIN files
      /\ files[p].number = number /\ files[p].stage = stage
      /\ files'[p] = file
      /\ \A f \in DOMAIN files : f # p => files'[f] = files[f]
  <2>1. /\ p \in DOMAIN files
        /\ files[p] = [number |-> number, stage |-> stage, whole |-> FALSE]
    BY <1>1, <1>3 DEF IsOpen
  <2>2. PICK closed : closed = [files[p] EXCEPT !.whole = TRUE]
    OBVIOUS
  <2>3. files' = [f \in DOMAIN files |-> IF f = p THEN closed ELSE files[f]]
    BY <1>1, <1>3, <2>2
  <2>4. closed = file
    <3>1. files[p] \in [number : {number}, stage : {stage}, whole : BOOLEAN]
      BY <2>1
    <3>2. /\ closed \in [number : {number}, stage : {stage}, whole : BOOLEAN]
          /\ closed.whole = TRUE
      BY <2>2, <3>1
    <3> QED BY <1>3, <3>2
  <2>5. DOMAIN files' = DOMAIN files /\ \A f \in DOMAIN files : f # p => files'[f] = files[f]
    BY <2>3
  <2>6. files'[p] = file
    BY <2>1, <2>3, <2>4
  <2>7. files[p].number = number /\ files[p].stage = stage
    BY <2>1
  <2> QED BY <2>1, <2>5, <2>6, <2>7
<1>5. /\ file \in File /\ file.number = number /\ file.stage = stage /\ file.whole
  BY <1>2, <1>3 DEF File
<1>6. /\ stage = "package" => After(stage) = IF request.top THEN "top"
                                ELSE IF "sidecar" \in Wanted THEN "sidecar" ELSE "idle"
      /\ stage = "top" => After(stage) = IF "sidecar" \in Wanted THEN "sidecar" ELSE "idle"
      /\ stage = "sidecar" => After(stage) = "idle"
      /\ request.top <=> "top" \in Wanted
  <2>1. request.top <=> "top" \in Wanted
    BY DEF Wanted, Stages
  <2> QED BY <2>1 DEF After
<1>7. Types'
  <2>1. File' = File /\ Wanted' = Wanted
    BY <1>1 DEF File, Wanted
  <2>2. \A f \in DOMAIN files' : files'[f] \in File'
    BY <1>4, <1>5, <2>1 DEF ExporterInv, Types
  <2>3. After(stage) \in {"idle"} \cup Wanted
    BY <1>6 DEF Stages
  <2> QED BY <1>1, <1>2, <2>1, <2>2, <2>3 DEF ExporterInv, Types
<1>8. RoutedInv'
  BY <1>1, <1>2 DEF ExporterInv, RoutedInv, AllRouted, Refused, EffectiveSeverity
<1>9. UntouchedInv'
  <2>1. After(stage) \in {"idle", "top", "sidecar"}
    BY <1>6 DEF Stages
  <2> QED BY <1>1, <1>2, <2>1 DEF UntouchedInv
<1>10. WrapperNotNewer'
  <2>1. \A f \in DOMAIN files : /\ files'[f].number = files[f].number
                                /\ files'[f].stage = files[f].stage
                                /\ files[f].whole => files'[f].whole
    BY <1>4, <1>5
  <2> QED BY <1>4, <2>1 DEF ExporterInv, FilesInv, WrapperNotNewer
<1>11. \A f \in DOMAIN files' : /\ files'[f].stage = "package" => f = PackagePath
                                /\ files'[f].stage = "top" => f = TopPath
  BY <1>4, <1>5 DEF ExporterInv, FilesInv
<1>12. Kept(stage)'
  BY <1>1, <1>3, <1>4 DEF Kept, PathOf
<1>13. /\ Wanted' = Wanted
       /\ \A s \in Stages : /\ PathOf(s)' = PathOf(s)
                            /\ Shadowed(s)' <=> Shadowed(s)
  BY <1>1 DEF Wanted, PathOf, Shadowed
<1>14. \A s \in Stages : Kept(s) /\ PathOf(s) # p => Kept(s)'
  BY <1>1, <1>4, <1>13 DEF Kept
<1>15. FilesInv'
  <2>1. CASE stage = "package"
    <3>1. ASSUME NEW s \in Wanted, "top" \notin Wanted, s # "sidecar"
          PROVE  Kept(s)'
      BY <1>12, <2>1, <3>1 DEF Wanted, Stages
    <3>2. step' \in {"idle", "top", "sidecar"}
      BY <1>1, <1>6, <2>1
    <3>3. step' = "sidecar" => "top" \notin Wanted
      BY <1>1, <1>6, <2>1
    <3>4. step' = "idle" => "top" \notin Wanted /\ "sidecar" \notin Wanted
      BY <1>1, <1>6, <2>1
    <3>5. outcome' = "returned" => step' = "idle"
      BY <1>1, <1>2
    <3> QED BY <1>10, <1>11, <1>12, <1>13, <2>1, <3>1, <3>2, <3>3, <3>4, <3>5 DEF FilesInv
  <2>2. CASE stage = "top"
    <3>1. Kept("package")'
      BY <1>1, <1>3, <1>14, <2>2, Paths DEF ExporterInv, FilesInv, Stages
    <3>2. \A s \in Wanted : s # "sidecar" => Kept(s)'
      BY <1>12, <2>2, <3>1 DEF Wanted, Stages
    <3>3. step' \in {"idle", "sidecar"} /\ (step' = "idle" => "sidecar" \notin Wanted)
      BY <1>1, <1>6, <2>2
    <3>4. outcome' = "returned" => step' = "idle"
      BY <1>1, <1>2
    <3> QED BY <1>10, <1>11, <1>13, <3>2, <3>3, <3>4 DEF FilesInv
  <2>3. CASE stage = "sidecar"
    <3>1. p = request.sidecar /\ step = "sidecar"
      BY <1>1, <1>3, <2>3, Paths
    <3>2. ASSUME NEW s \in Wanted, ~Shadowed(s) PROVE Kept(s)'
      <4>1. CASE s = "sidecar"
        BY <1>12, <2>3, <4>1
      <4>2. CASE s # "sidecar"
        <5>1. Kept(s) /\ PathOf(s) # p /\ s \in Stages
          BY <3>1, <3>2, <4>2 DEF ExporterInv, FilesInv, Shadowed, Wanted
        <5> QED BY <1>14, <5>1
      <4> QED BY <4>1, <4>2
    <3>3. step' = "idle"
      BY <1>1, <1>6, <2>3
    <3>4. \A s \in Wanted' : ~Shadowed(s)' => Kept(s)'
      BY <1>13, <3>2 DEF Wanted
    <3> QED BY <1>10, <1>11, <3>3, <3>4 DEF FilesInv
  <2> QED BY <2>1, <2>2, <2>3 DEF Stages
<1>16. SidecarInv'
  <2>1. \A f \in DOMAIN files : /\ files'[f].number = files[f].number
                                /\ files'[f].stage = files[f].stage
                                /\ files[f].whole => files'[f].whole
    BY <1>4, <1>5
  <2> QED BY <1>1, <1>4, <2>1 DEF ExporterInv, SidecarInv, SidecarNotNewer
<1> QED BY <1>7, <1>8, <1>9, <1>15, <1>16 DEF ExporterInv

----------------------------------------------------------------------------
\* What is known of an export at each of its steps, and of the files it finds.
THEOREM ExporterInvariance == Spec => []ExporterInv
<1>1. ExporterInv /\ [Next]_vars => ExporterInv'
  <2> SUFFICES ASSUME ExporterInv, [Next]_vars PROVE ExporterInv'
    OBVIOUS
  <2>1. CASE \E r \in Requests, d \in Designs : Begin(r, d)
    BY <2>1, BeginStep
  <2>2. CASE Build
    BY <2>2, BuildStep
  <2>3. CASE Route
    BY <2>3, RouteStep
  <2>4. CASE Judge
    BY <2>4, JudgeStep
  <2>5. CASE \E stage \in Stages : Open(stage)
    BY <2>5, OpenStep
  <2>6. CASE \E stage \in Stages : Write(stage)
    BY <2>6, WriteStep
  <2>7. CASE \E stage \in Stages : Fail(stage)
    BY <2>7, FailStep
  <2>8. CASE UNCHANGED vars
    BY <2>8 DEF vars, ExporterInv, Types, RoutedInv, UntouchedInv, FilesInv, WrapperNotNewer,
                SidecarInv, SidecarNotNewer, File, Wanted, AllRouted, Refused, EffectiveSeverity, Kept, Shadowed, PathOf
  <2> QED BY <2>1, <2>2, <2>3, <2>4, <2>5, <2>6, <2>7, <2>8 DEF Next, Proceed
<1> QED BY <1>1, ExporterInit, PTL DEF Spec

\* The types and the steps of an export.
THEOREM ExporterTypes == Spec => []ExporterTypeOK
<1>1. ExporterInv => ExporterTypeOK
  BY DEF ExporterInv, Types, ExporterTypeOK, File
<1> QED BY <1>1, ExporterInvariance, PTL

\* A refused design, an invalid option or a failed assertion leaves the files of
\* every earlier export alone.
THEOREM RefusalsWriteNothing == Spec => []RefusalWritesNothing
<1>1. ExporterInv => RefusalWritesNothing
  BY DEF ExporterInv, UntouchedInv, RefusalWritesNothing
<1> QED BY <1>1, ExporterInvariance, PTL

\* The wrapper on disk is never newer than the package on disk, whatever fails
\* and wherever the sidecar goes.
THEOREM WrappersNotNewer == Spec => []WrapperNotNewer
<1>1. ExporterInv => WrapperNotNewer
  BY DEF ExporterInv, FilesInv
<1> QED BY <1>1, ExporterInvariance, PTL

\* Nor is the sidecar, and the package of its own export was whole before it.
THEOREM SidecarsNotNewer == Spec => []SidecarNotNewer
<1>1. ExporterInv => SidecarNotNewer
  BY DEF ExporterInv, SidecarInv
<1> QED BY <1>1, ExporterInvariance, PTL

\* A finding counts as an error as it is, or as a warning under strict.
LEMMA ErrorRouted ==
  ASSUME ExporterInv, AllRouted
  PROVE  Refused <=> \E i \in DOMAIN design.findings :
           \/ design.findings[i] = "error"
           \/ request.strict /\ design.findings[i] = "warning"
<1>1. /\ design \in Designs /\ routed \in Seq(Severities)
      /\ DOMAIN routed = 1 .. Len(routed)
  BY DEF ExporterInv, Types
<1>2. DOMAIN routed = DOMAIN design.findings
  BY <1>1, DesignFacts DEF AllRouted
<1>3. \A i \in DOMAIN routed : routed[i] = EffectiveSeverity(design.findings[i])
  BY DEF ExporterInv, RoutedInv
<1>4. Refused <=> \E i \in DOMAIN routed : routed[i] = "error"
  BY DEF Refused, Range
<1> QED BY <1>2, <1>3, <1>4 DEF EffectiveSeverity

\* Every finding is passed on in its place, and the export is refused exactly
\* for an error.
THEOREM FindingsAllRouted == Spec => []EveryFindingRouted
<1>1. ExporterInv => EveryFindingRouted
  <2> SUFFICES ASSUME ExporterInv, outcome \in {"returned", "refused", "failed"}, number > 0
               PROVE  /\ AllRouted
                      /\ \A i \in DOMAIN design.findings :
                           routed[i] = EffectiveSeverity(design.findings[i])
                      /\ outcome = "refused" <=>
                           \E i \in DOMAIN design.findings :
                             \/ design.findings[i] = "error"
                             \/ request.strict /\ design.findings[i] = "warning"
    BY DEF EveryFindingRouted, AllRouted
  <2>1. number # 0
    OBVIOUS
  <2>2. AllRouted /\ (outcome = "refused" <=> Refused)
    BY <2>1 DEF ExporterInv, RoutedInv
  <2>3. DOMAIN routed = DOMAIN design.findings
    BY <2>2, DesignFacts DEF ExporterInv, Types, AllRouted
  <2>4. \A i \in DOMAIN design.findings : routed[i] = EffectiveSeverity(design.findings[i])
    BY <2>3 DEF ExporterInv, RoutedInv
  <2> QED BY <2>2, <2>4, ErrorRouted
<1> QED BY <1>1, ExporterInvariance, PTL

\* A return means no error was reported and every file asked for is there.
THEOREM ReturnsMeanWritten == Spec => []ReturnMeansWritten
<1>1. ExporterInv => ReturnMeansWritten
  <2> SUFFICES ASSUME ExporterInv, outcome = "returned", number > 0
               PROVE  /\ "error" \notin Range(design.findings)
                      /\ request.strict => "warning" \notin Range(design.findings)
                      /\ \A stage \in Wanted :
                           (stage # "sidecar" => request.sidecar # PathOf(stage)) => Kept(stage)
    BY DEF ReturnMeansWritten, Kept
  <2>1. number # 0
    OBVIOUS
  <2>2. AllRouted /\ ~Refused
    BY <2>1 DEF ExporterInv, RoutedInv
  <2>3. \A stage \in Wanted : ~Shadowed(stage) => Kept(stage)
    BY <2>1 DEF ExporterInv, FilesInv
  <2> QED BY <2>2, <2>3, ErrorRouted DEF Range, Shadowed
<1> QED BY <1>1, ExporterInvariance, PTL
=============================================================================
