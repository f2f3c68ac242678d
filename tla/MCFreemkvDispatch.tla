--------------------------- MODULE MCFreemkvDispatch --------------------------
(* Five catalogs, three entries a release may add, and a drive of tuple f1. *)
EXTENDS FreemkvDispatch

Entry(four, product_) == [four |-> four, product |-> product_]
Catalog(a, b, renesas) == [mt1959_a |-> a, mt1959_b |-> b, renesas |-> renesas]

\* The drive's tuple unknown, unique, shared within and across the sections.
MCCatalogs ==
  {Catalog(<<Entry("f2", "p1")>>, <<>>, <<>>),
   Catalog(<<Entry("f1", "generic")>>, <<>>, <<>>),
   Catalog(<<>>, <<Entry("f1", "generic"), Entry("f1", "p1")>>, <<>>),
   Catalog(<<Entry("f1", "generic")>>, <<Entry("f1", "p2")>>, <<>>),
   Catalog(<<>>, <<>>, <<Entry("f1", "p1")>>)}
MCNews == {Entry("f1", "p1"), Entry("f1", "p3"), Entry("f2", "p1")}
MCProducts == {NoProduct, "p1"}

\* A cap that is no character, the digit 9, a dot, and OEM.
MCSpeedBytes == {1, 46, 57, 255}

\* 0.9.2 and 0.8.1.
Spelling(minor_, patch_) == [major |-> <<48>>, minor |-> <<minor_>>, patch |-> <<patch_>>]
MCVersions == [supported |-> Spelling(57, 50), old |-> Spelling(56, 49)]
===============================================================================
