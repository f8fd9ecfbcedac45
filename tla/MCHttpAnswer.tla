----------------------------- MODULE MCHttpAnswer -----------------------------
(* Requests of up to two short lines over a letter, the colon and the      *)
(* space, whole and cut at every place from the request line on, and some  *)
(* of three lines.                                                         *)
EXTENDS HttpAnswer, SequencesExt

Lines(n) == BoundedSeq({"a", Colon, Space}, n) \ {<<>>}

Samples == {<<"a", Colon, "a">>, <<"a", Colon, Space, "a">>, <<"a", "a", Colon, "a">>}

(* The request of some lines, cut after n of its characters.               *)
Cut(lines, n, root) ==
    LET text == <<CR, LF>> \o FlattenSeq([i \in DOMAIN lines |-> lines[i] \o <<CR, LF>>])
                           \o <<CR, LF>>
    IN  [text |-> [i \in 0..(Len(text) - 1) |-> text[i + 1]], size |-> Len(text),
         received |-> n, root |-> root]

Cuts(lines) == {Cut(lines, n, TRUE) : n \in 0..Cut(lines, 0, TRUE).size}

MCRequests ==
    UNION ({Cuts(<<l>>) : l \in Lines(5)}
             \cup {Cuts(<<k, l>>) : k \in Samples, l \in Lines(3)}
             \cup {Cuts(<<k, l, m>>) : k, l, m \in Samples})
        \cup {Cut(<<>>, n, root) : n \in 0..4, root \in BOOLEAN}

MCLeftovers == {<<"a", Colon, "a", "a">>, <<LF, CR, LF, "a", Space, "a", Colon, "a">>}
==============================================================================
