--------------------------- MODULE MCLinkResolution ---------------------------
(* Files of a root group, a group a and a dataset d, with two names in each    *)
(* group: links of every kind, among them links to the group that holds them,  *)
(* to an enclosing group, to each other in a circle, and to nothing.           *)
EXTENDS LinkResolution

CONSTANTS a, d, x, y

Headers == {root, a, d}
Spellings == {<<>>, <<x>>, <<y>>, <<x, x>>, <<x, y>>, <<y, x>>, <<y, y>>, <<x, y, y>>}

Hard(to) == [kind |-> "hard", to |-> to]
Soft(absolute, names) == [kind |-> "soft", path |-> [absolute |-> absolute, names |-> names]]
External == [kind |-> "external"]

Absent == [kind |-> "absent"]
Members(atX, atY) ==
    LET at == [n \in {x, y} |-> IF n = x THEN atX ELSE atY]
    IN  [n \in {m \in {x, y} : at[m] # Absent} |-> at[n]]

Files == {[groups |-> {root, a},
           members |-> [h \in Headers |-> CASE h = root -> Members(rx, ry)
                                            [] h = a -> Members(ax, ay)
                                            [] OTHER -> Members(Absent, Absent)]] :
             rx \in {Hard(a), Soft(TRUE, <<y>>), Soft(FALSE, <<y, x>>)},
             ry \in {Absent, Hard(a), External, Soft(TRUE, <<x, y, y>>), Soft(FALSE, <<x>>)},
             ax \in {Absent, Hard(d), Hard(root), External, Soft(FALSE, <<y>>)},
             ay \in {Hard(d), External, Soft(TRUE, <<x>>), Soft(FALSE, <<x>>), Soft(TRUE, <<y, x>>)}}

Queries == [op: {"dataset", "group"}, base: {root},
            names: {<<>>, <<y>>, <<x, y>>, <<y, y>>}]
           \cup [op: {"dataset", "member"}, base: {a}, names: {<<x>>}]

\* What the paths of a file mean: the least relation closed under following links.
RECURSIVE Grown(_, _)
Grown(f, meaning) ==
    LET Steps(h, name) == {next \in Headers \cup {Outside} : LeadsOn(f, meaning, h, name, next)}
        more == meaning \cup UNION {{<<h, names, to>> : to \in
                    UNION {{t \in Headers \cup {Outside} : <<next, Tail(names), t>> \in meaning} :
                              next \in Steps(h, Head(names))}} :
                    h \in Headers, names \in Spellings \ {<<>>}}
    IN  IF more = meaning THEN meaning ELSE Grown(f, more)

Meanings == [f \in Files |-> Grown(f, {<<h, <<>>, h>> : h \in Headers \cup {Outside}})]
=============================================================================
