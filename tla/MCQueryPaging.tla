--------------------------- MODULE MCQueryPaging ---------------------------
(* QueryPaging with a range that is not the whole log and takes one page or  *)
(* two; reports enough to have an order.                                     *)
EXTENDS QueryPaging

MCRanges == {<< 2, 3 >>}

=============================================================================
