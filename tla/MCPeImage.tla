----------------------------- MODULE MCPeImage -----------------------------
(***************************************************************************)
(* PeImage with words of 4 bits: images whose headers vary, whose sections *)
(* do, and whose directory does, up to where sums wrap around.             *)
(***************************************************************************)
EXTENDS PeImage

Base == [native |-> TRUE, pool |-> 8, lfanew |-> 2, size |-> 8, headers |-> 5,
         entry |-> 0, sections |-> <<[va |-> 1, size |-> 2]>>,
         directories |-> <<[va |-> 1, size |-> 2]>>]

Headers ==
  {[Base EXCEPT !.pool = p, !.lfanew = l, !.size = s, !.headers = h, !.entry = e] :
     p \in {3, 8, 15}, l \in {0, 2, 3, 4, 14}, s \in {3, 8, 9},
     h \in {0, 4, 5, 9}, e \in {0, 8}}

Ranges == [va : {0, 1, 5, 7, 8, 15}, size : {0, 1, 2, 7, 8, 9, 15}]

Sections ==
  {[Base EXCEPT !.pool = p, !.sections = <<[va |-> 1, size |-> 2], r>>] :
     p \in {8, 15}, r \in Ranges}

Directories ==
  {[Base EXCEPT !.pool = p, !.directories = <<[va |-> 0, size |-> 9], r>>] :
     p \in {8, 15}, r \in Ranges}

MCImages == Headers \union Sections \union Directories
    \union {[Base EXCEPT !.native = FALSE],
            [Base EXCEPT !.sections = <<>>],
            [Base EXCEPT !.headers = 8,
                         !.sections = [k \in 1..3 |-> [va |-> 1, size |-> 2]]]}

=============================================================================
