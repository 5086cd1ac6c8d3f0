----------------------------- MODULE MCAnalyse -----------------------------
(* Five tracks, of which four are handled; two files.                        *)
EXTENDS Analyse

Alias1(n, to) == [k |-> "alias", name |-> n, to |-> to]
Def(n) == [k |-> "def", name |-> n]
R(a, b, s, f) == [k |-> "range", start |-> a, end |-> b, step |-> s, fmts |-> f]
Other == [k |-> "other"]

MCFiles ==
    [formats |->
        <<Alias1("default", "game"), Alias1("game", "ados_copylock"),
          Def("broken"), R(0, 2, 1, <<"ados">>), Other, R(3, 4, 1, <<"ados">>),
          [k |-> "include", file |-> "more"],
          Def("overlap"), R(2, 2, 1, <<"copylock">>), R(1, 3, 2, <<"ignore">>),
          R(0, 4, 1, <<"raw", "ados">>), Other,
          Def("step0"), R(0, 4, 0, <<"ados">>)>>,
     more |->
        <<Def("pc"), R(0, 4, 1, <<"pc">>), Other,
          Def("ados_copylock"), R(0, 0, 1, <<"ados">>),
          R(0, 4, 1, <<"ados", "copylock", "raw">>), Other,
          Def("toolong"), R(0, 5, 1, <<"ados">>)>>]
MCSpecs == {"default", "broken", "overlap", "step0", "pc", "toolong", "none"}

\* Three lines of the file formats, in their order.
OnSafari ==
    [formats |-> <<Alias1("On Safari", "amigados"),
                   Alias1("Safari Guns", "On Safari"),
                   Def("amigados"), R(0, 4, 1, <<"ados">>)>>]
SafariGuns == {"Safari Guns"}

MCFormats == {"ados", "copylock", "raw", "pc"}
Outcome == {[ados |-> a, copylock |-> c, raw |-> r, pc |-> "no", unformatted |-> u] :
              a \in {"no", "part"}, c \in {"no", "full"},
              r \in {"no", "part"}, u \in {"no", "full"}}
Clean == [ados |-> "full", copylock |-> "no", raw |-> "no", pc |-> "no",
          unformatted |-> "no"]
Noise == [f \in DOMAIN Clean |-> IF f = "unformatted" THEN "full" ELSE "no"]
Lost == [f \in DOMAIN Clean |-> "no"]

\* One good track, two of any kind, and one beyond the last that is warned of.
MCDumps == {0 :> Clean @@ 1 :> x @@ 2 :> y @@ 3 :> z :
              x, y \in Outcome, z \in {Clean, Noise, Lost}}
OneDump == {[i \in 0..3 |-> Clean]}
MCBytes == [ados |-> 0, copylock |-> 0, raw |-> 0, pc |-> 2]
MCImageBytes == {0, 1, 4, 8, 9}
=============================================================================
