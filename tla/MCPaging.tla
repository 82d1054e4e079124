------------------------------ MODULE MCPaging ------------------------------
(* Every feed of three pages with up to two, two and one of three items: with  *)
(* empty pages, items repeated in a page and across pages, and calls that may  *)
(* read two pages.  One fetch fails and the first page changes once.           *)
EXTENDS Paging

CONSTANTS a, b, c

MCItems == {a, b, c}
PageChoices == {<<>>} \cup {<<x>> : x \in MCItems} \cup {<<x, y>> : x, y \in MCItems}
ShortPages == {<<>>} \cup {<<x>> : x \in MCItems}
MCFeeds == {<<p, q, r>> : p, q \in PageChoices, r \in ShortPages}
MCFirstPages == {<<>>, <<a>>, <<a, b>>, <<b, c>>}
MCRequests == {-1, 0, 1, 3}
=============================================================================
