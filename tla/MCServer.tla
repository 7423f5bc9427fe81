------------------------------ MODULE MCServer ------------------------------
(***************************************************************************)
(* Uploads whose names collide, also with the names the server makes up.   *)
(***************************************************************************)
EXTENDS Server

MCField(name, d, fault) == [name |-> name, data |-> d, fault |-> fault]
Body(kind, authorized, fields) ==
    [kind |-> kind, authorized |-> authorized, fields |-> fields]

\* "a", the names a second and a third "a" would get, no name, and the name a
\* second field without one would get.
Names == {Name(<< >>, "a", 0), Name(<<1>>, "a", 0), Name(<<2>>, "a", 0),
          NoName, Name(<< >>, "file", 1)}

Uploads == {[i \in 1 .. MaxServerFileCount |-> MCField(names[i], i, "none")] :
               names \in [1 .. MaxServerFileCount -> Names]}

FullBodies == {Body("compress", TRUE, u) : u \in Uploads}

EdgeBodies ==
    {Body("compress", TRUE, << >>),
     Body("compress", TRUE, <<MCField(NoName, 1, "large")>>),
     Body("compress", TRUE, [i \in 1 .. MaxServerFileCount + 1 |->
                                MCField(Name(<< >>, "a", 0), i, "none")]),
     Body("extract", TRUE, <<MCField(NoName, 1, "none")>>),
     Body("extract", TRUE, <<MCField(NoName, 1, "broken")>>),
     Body("verify", TRUE, <<MCField(NoName, 1, "none")>>),
     Body("list", TRUE, <<MCField(NoName, 1, "none")>>),
     Body("list", TRUE, << >>),
     Body("extract", FALSE, << >>)}

\* Requests share nothing but the permits of their route.  So an upload of full
\* length is run beside another request of its route, and the edge cases beside
\* requests of every route.
MCBodies ==
    LET one == CHOOSE r \in Requests : TRUE
        short == {b \in EdgeBodies : Len(b.fields) = 1}
        Pairs(S, T) == {[r \in Requests |-> IF r = one THEN b ELSE c] : b \in S, c \in T}
    IN  Pairs(FullBodies, {b \in short : b.kind = "compress"}) \cup Pairs(EdgeBodies, short)
==============================================================================
