----------------------------- MODULE ProfileMatch -----------------------------
(***************************************************************************)
(* The bundled drive catalog and its lookup: find_by_drive_id and the      *)
(* claim LD builds on it (src/src/ld/profile.rs, src/src/ld/mod.rs).       *)
(*                                                                         *)
(* An entry, like a drive's INQUIRY identity, is a product id and "four",  *)
(* the tuple of vendor, revision, vendor-specific and firmware-date        *)
(* fields; both stand for the trimmed text.  The catalog keeps one list of *)
(* entries per platform.                                                   *)
(***************************************************************************)
EXTENDS Naturals, Sequences

Platforms == {"mt1959_a", "mt1959_b", "renesas"}

\* A drive may report no product id, and a lookup may bind nothing.
NoProduct == "none"
NoEntry   == [platform |-> "none", four |-> "none", product |-> "none"]

Section(platform, list) ==
  [i \in DOMAIN list |->
     [platform |-> platform, four |-> list[i].four, product |-> list[i].product]]

\* all(): every entry, platform by platform, in the order of the sections.
All(profiles) ==
  Section("mt1959_a", profiles.mt1959_a) \o Section("mt1959_b", profiles.mt1959_b)
    \o Section("renesas", profiles.renesas)

FourField(entry, id) == entry.four = id.four
Exact(entry, id)     == FourField(entry, id) /\ entry.product = id.product

Matches(all, id) == {i \in DOMAIN all : FourField(all[i], id)}
Exacts(all, id)  == {i \in DOMAIN all : Exact(all[i], id)}

First(S) == CHOOSE i \in S : \A j \in S : i <= j

\* Variant: the first four-field match binds, however many share the tuple.
BlindAny(all, id) ==
  IF Matches(all, id) = {} THEN NoEntry ELSE all[First(Matches(all, id))]

\* Whatever the drive reports, a unique tuple binds; a shared one binds only
\* a drive that reports no product id.
Blind(all, id) ==
  LET found == Matches(all, id) IN
  IF found = {} \/ (id.product # NoProduct /\ \E i, j \in found : i # j)
  THEN NoEntry
  ELSE all[First(found)]

FindIn(all, id) ==
  IF id.product # NoProduct /\ Exacts(all, id) # {}
  THEN all[First(Exacts(all, id))]
  ELSE Blind(all, id)

Find(profiles, id) == FindIn(All(profiles), id)

\* The catalog before and after a release that added one entry at place k.
Inserted(all, k, entry) ==
  [i \in 1..(Len(all) + 1) |->
     IF i < k THEN all[i] ELSE IF i = k THEN entry ELSE all[i - 1]]

\* LD owns the MT1959 sections; the Renesas section is freemkv's.
LdClaims(profiles, id) == Find(profiles, id).platform \in {"mt1959_a", "mt1959_b"}
=============================================================================
