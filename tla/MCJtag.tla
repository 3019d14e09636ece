-------------------------------- MODULE MCJtag --------------------------------
(* Sessions for Jtag: one program of up to three words, of which a last    *)
(* one or a reset may be anywhere or missing, or two or three programs in *)
(* one memory, long and short ones in every order.                         *)
EXTENDS Jtag

MCWord(end, kind, bits) == [end |-> end, kind |-> kind, bits |-> bits]
MCWords == {MCWord(FALSE, "IR", <<1>>), MCWord(FALSE, "DR", <<1, 0>>), MCWord(TRUE, "DR", <<1>>),
            MCWord(TRUE, "IR", <<1, 1>>), MCWord(FALSE, "SRT", <<0>>)}
MCSingle   == UNION {[1 .. n -> MCWords] : n \in 1 .. 3}
MCReadBack == {<<MCWord(FALSE, "IR", <<1>>), MCWord(FALSE, "DR", <<1, 0>>), MCWord(TRUE, "DR", <<1>>)>>,
               <<MCWord(FALSE, "DR", <<0, 1>>), MCWord(FALSE, "DR", <<1, 1>>), MCWord(FALSE, "HRT", <<0>>)>>,
               <<MCWord(TRUE, "IR", <<1, 0>>)>>, <<MCWord(FALSE, "DR", <<1>>)>>}
MCSessions == [1 .. 1 -> MCSingle] \cup UNION {[1 .. n -> MCReadBack] : n \in 2 .. 3}
=============================================================================
