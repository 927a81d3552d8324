---------------------------- MODULE MemorySearch ----------------------------
(***************************************************************************)
(* What a search of the memory graph selects: the WHERE clause built by    *)
(* reframe_memory/search.py for the stores, and the hints and timestamp    *)
(* breadths of reframe_memory/retrieval_terms.py for the retrieval that    *)
(* serves a task.  A text is the set of the terms it contains once it is   *)
(* lowercased; two texts are equal when they contain the same terms.  Of a *)
(* time only its side of the cutoffs counts: 0 before, 1 after.            *)
(***************************************************************************)
EXTENDS Naturals, FiniteSets

CONSTANT Never      \* read_at of a node nobody has read

\* Blank terms are dropped from every list of a search.
CleanTerms(terms) == terms \ {""}

TagSearch(any, all, none) ==
  [any |-> CleanTerms(any), all |-> CleanTerms(all), none |-> CleanTerms(none)]

StringSearch(contains, equals) ==
  [contains |-> CleanTerms(contains), equals |-> equals \ {{}}]

NoTags == TagSearch({}, {}, {})
NoStrings == StringSearch({}, {})

------------------------------------------------------------------------------
(* The clauses of a store's search.  They are joined by AND.                 *)

TagClauses(node, tags) ==
  /\ tags.any # {} => tags.any \cap node.tags # {}
  /\ Cardinality(tags.all \cap node.tags) = Cardinality(tags.all)
  /\ tags.none \cap node.tags = {}

\* One clause per searched field: any of its terms.
ContentClauses(node, contains) ==
  \A f \in DOMAIN contains : CleanTerms(contains[f]) # {} =>
    f \in DOMAIN node.content /\ CleanTerms(contains[f]) \cap node.content[f] # {}

ContentEqualsClauses(node, equals) ==
  \A f \in DOMAIN equals : equals[f] \ {{}} # {} =>
    f \in DOMAIN node.content /\ node.content[f] \in equals[f] \ {{}}

\* One clause for all fields and terms together.
StringClause(node, strings, fields) ==
  strings.contains # {} \/ strings.equals # {} =>
    \E f \in fields \cap DOMAIN node.content :
      \/ strings.contains \cap node.content[f] # {}
      \/ node.content[f] \in strings.equals

BuildMemoryNodeWhere(node, search) ==
  /\ TagClauses(node, search.tags)
  /\ StringClause(node, search.strings, search.fields)
  /\ ContentClauses(node, search.contains)
  /\ ContentEqualsClauses(node, search.equals)

------------------------------------------------------------------------------
(* The hints of a retrieval.                                                 *)

ExcludedByTags(node, tags) == tags.none \cap node.tags # {}

HasPositiveTerms(hints) ==
  \/ hints.tags.any \cup hints.tags.all # {}
  \/ hints.strings.contains # {} \/ hints.strings.equals # {}

MatchesPositiveTag(node, tags) == (tags.any \cup tags.all) \cap node.tags # {}

MatchesPositiveString(node, strings, fields) ==
  \E f \in fields \cap DOMAIN node.content :
    \/ strings.contains \cap node.content[f] # {}
    \/ node.content[f] \in strings.equals

\* Tags and strings are joined by OR, and all_of asks for no more than any_of.
HintsMatch(node, hints, fields) ==
  /\ ~ExcludedByTags(node, hints.tags)
  /\ HasPositiveTerms(hints)
  /\ MatchesPositiveTag(node, hints.tags) \/ MatchesPositiveString(node, hints.strings, fields)

\* A node nobody has read is in every breadth of read times.
BreadthMatches(node, breadth) ==
  /\ node.created >= breadth.created
  /\ node.updated >= breadth.updated
  /\ node.read = Never \/ node.read >= breadth.read

CandidateMatches(node, fields, hints, breadth) ==
  BreadthMatches(node, breadth) /\ HintsMatch(node, hints, fields)
=============================================================================
