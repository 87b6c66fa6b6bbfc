----------------------------- MODULE MCGopConsole -----------------------------
(***************************************************************************)
(* Modes and strings for GopConsole: every list of up to three modes, of   *)
(* the right size and not, of RGB, BGR and other pixels, with any current  *)
(* mode and any failing calls; every string of four characters over two    *)
(* letters and the line feed, and some with a carriage return and with a   *)
(* character that has no glyph.                                            *)
(***************************************************************************)
EXTENDS GopConsole

MCStrings ==
    [1 .. 4 -> {"a", "b", "LF"}]
    \cup {<<>>, <<"a">>, <<"a", "CR", "b">>, <<"a", "a", "CR", "b", "b">>, <<"?", "a">>,
          <<"a", "b", "?", "LF", "LF", "a">>}

ModeKinds ==
    {[vga |-> TRUE,  format |-> "RGB", height |-> 5, cols |-> 2],
     [vga |-> FALSE, format |-> "BGR", height |-> 4, cols |-> 3],
     [vga |-> TRUE,  format |-> "other", height |-> 5, cols |-> 2]}
MCOffers ==
    UNION {UNION {{[modes |-> ms, current |-> c, answered |-> a, setOk |-> ok] :
                      c \in DOMAIN ms, a \in SUBSET DOMAIN ms, ok \in BOOLEAN} :
                  ms \in [1 .. n -> ModeKinds]} : n \in 1 .. 3}
=============================================================================
