------------------------------ MODULE YamlDoc ------------------------------
(***************************************************************************)
(* Configuration documents and files, as the YAML repository               *)
(* (infrastructure/yaml/yaml-config-repository.ts) treats them.            *)
(*                                                                         *)
(* A document is a function from Fields to Values or Unset.  A file holds  *)
(* a document, is missing (NoFile), holds nothing (Blank: empty, or only   *)
(* comments), or is Torn: cut in the middle, so that it does not parse.    *)
(***************************************************************************)
CONSTANTS Fields, Values, Unset, NoFile, Torn, Blank,
    Normal   \* Normal[v]: what saveRaw() writes for v, Unset if it leaves v out

Docs == [Fields -> Values \cup {Unset}]
Contents == Docs \cup {NoFile, Torn, Blank}

Empty == [x \in Fields |-> Unset]

\* deepMerge(): the overlay wins on every key it has, every other key is kept.
Merge(old, overlay) ==
    [x \in Fields |-> IF overlay[x] # Unset THEN overlay[x] ELSE old[x]]

\* loadRaw(): a missing or unparsable file reads as {}.  A blank one reads as
\* undefined, which a save takes for {} too.
LoadRaw(content) == IF content \in Docs THEN content ELSE Empty

\* ensureNumericTypes(), removeNullValues() and the rewriting of db_uri go over
\* the whole merged document: digits become numbers, nulls are left out, and
\* 'localhost' becomes '127.0.0.1', whoever wrote them.
Cleaned(v) == IF v = Unset THEN Unset ELSE Normal[v]
Clean(doc) == [x \in Fields |-> Cleaned(doc[x])]

\* Mutant: the document of the request replaces the file.
Replaced(content, overlay) == Clean(overlay)

\* saveRaw(): the document that replaces a file of this content.
Saved(content, overlay) == Clean(Merge(LoadRaw(content), overlay))

=============================================================================
