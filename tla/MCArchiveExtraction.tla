------------------------ MODULE MCArchiveExtraction ------------------------
EXTENDS ArchiveExtraction, TLC

Tree == "d" :> "dest" @@ "f" :> "d" @@ "g" :> "dest" @@ "zip" :> "dest"

Entering(target, link, dir, declared) ==
    [target |-> target, link |-> link, dir |-> dir, declared |-> declared]

(* Files of declared sizes below and above the limits, at the place of a   *)
(* directory, of the temporary file and outside; a directory; a link.      *)
Members ==
    {Entering(t, FALSE, FALSE, n) : t \in Paths, n \in {1, 2}}
      \cup {Entering("g", FALSE, FALSE, 3), Entering("d", FALSE, TRUE, 0),
            Entering("g", TRUE, FALSE, 1), Entering("outside", FALSE, FALSE, 1)}

Archive(large, zip, stuck, members) ==
    [large |-> large, zip |-> zip, stuck |-> stuck, members |-> members]

AllArchives ==
    {Archive(FALSE, TRUE, stuck, m) :
        stuck \in BOOLEAN, m \in {<<>>} \cup {<<a>> : a \in Members}
                                 \cup {<<a, b>> : a \in Members, b \in Members}}
      \cup {Archive(large, zip, FALSE, <<m, m, m>>) :
               large \in BOOLEAN, zip \in BOOLEAN, m \in Members}
============================================================================
