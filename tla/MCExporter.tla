----------------------------- MODULE MCExporter -----------------------------
(* Three exports into one place, of designs with each kind of finding, with *)
(* and without strict, the wrapper and a sidecar, which may be given the    *)
(* path of the package or of the wrapper.                                   *)
EXTENDS Exporter

MCDesigns ==
  {[findings |-> f, inconsistent |-> FALSE] :
     f \in {<<"info">>, <<"warning", "info">>, <<"error", "warning">>}}
  \cup {[findings |-> <<"info">>, inconsistent |-> TRUE]}
Request(strict, top, sidecar) ==
  [node |-> "addrmap", typeStyle |-> "lexical", emitEnums |-> "const",
   offsetMode |-> "instance", strict |-> strict, top |-> top, sidecar |-> sidecar]
Plain == Request(FALSE, FALSE, NoSidecar)
MCRequests ==
  {Request(s, t, p) : s, t \in BOOLEAN, p \in {NoSidecar, "regs.json", "regs.pss", "regs_top.pss"}}
  \cup {[Plain EXCEPT !.node = "reg"], [Plain EXCEPT !.emitEnums = "typed"],
        [Plain EXCEPT !.node = "root", !.typeStyle = "hier", !.emitEnums = "off"]}
=============================================================================
