------------------------------- MODULE MCWire -------------------------------
(* Model-checking instance of Wire: every script of up to three parts of    *)
(* these shapes, and of four parts that are live or undecodable.            *)
EXTENDS Wire

Part(declared, body) == [junk |-> <<>>, first |-> "type", declared |-> declared, body |-> body]

\* A body that holds what looks like the next marker is only sent with a length;
\* text between parts may end in half a marker.  Two shapes are one token over the
\* cap, one has a header line that cannot be read.
Shapes ==
  { Part(TRUE,  <<"obs", "\n", "--", "b", "x">>),
    Part(FALSE, <<"obs", "--", "x">>),
    Part(TRUE,  <<"beat">>),
    Part(TRUE,  <<"html", "\n">>),
    Part(FALSE, <<"html">>),
    Part(FALSE, <<"error">>),
    Part(TRUE,  <<"range">>),
    Part(TRUE,  <<"obs", "x", "x", "x", "x", "x">>),
    Part(FALSE, <<"obs", "x", "x", "x", "x", "x">>),
    [junk |-> <<>>, first |-> "bad", declared |-> FALSE, body |-> <<"beat">>],
    [junk |-> <<"x", "--">>, first |-> "type", declared |-> TRUE, body |-> <<"restart", "x">>] }

\* ...but not after a part whose length is not declared: it would belong to it.
Framed(s) == \A i \in 2..Len(s) : s[i].junk # <<>> => s[i - 1].declared

ShortScripts == {s \in UNION {[1..n -> Shapes] : n \in 1..3} : Framed(s)}
                \cup [1..4 -> {Part(FALSE, <<"html">>), Part(TRUE, <<"beat">>)}]

Words == {"\n", "--", "b", "type", "bad", "x", "len1", "len2", "len3", "len4", "len5", "len6",
          "obs", "beat", "html", "error", "range", "restart"}
Lines == [len1 |-> 1, len2 |-> 2, len3 |-> 3, len4 |-> 4, len5 |-> 5, len6 |-> 6]

\* The first n parts of a script, one after another.
First(s, n) == FlattenSeq([i \in 1..n |-> Sent(s[i])])
Streams == [s \in ShortScripts |-> First(s, Len(s)) \o Epilogue]
Starts  == [s \in ShortScripts |-> [i \in 1..Len(s) + 1 |-> Len(First(s, i - 1))]]
=============================================================================
