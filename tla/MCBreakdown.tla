----------------------------- MODULE MCBreakdown -----------------------------
(* A small instance of Breakdown for TLC. *)
EXTENDS Breakdown

CONSTANTS i1, i2

\* The second name of ann leads to her username, dave is not a member.
MCMembers == <<[username |-> "ann", aliases |-> {"ann", "Ann Lee"}],
               [username |-> "bob", aliases |-> {"bob"}],
               [username |-> "carol", aliases |-> {"carol"}]>>

MCTitleOf == [i \in {i1, i2} |-> IF i = i1 THEN "existing" ELSE "other"]

Node(parent, title, names) ==
    [parent |-> parent, wellFormed |-> TRUE, title |-> title, thin |-> FALSE, names |-> names]

\* Three levels, the assignees at the bottom.
Deep == <<Node(0, "a", {}), Node(1, "b", {}), Node(2, "c", {"Ann Lee", "dave"}), Node(1, "d", {"bob"})>>

\* Two roots, one of them a task that exists already.
Known == <<Node(0, "a", {"bob"}), Node(0, "existing", {"ann"})>>

\* One level too many, and one node without a title.
TooDeep  == Append(SubSeq(Deep, 1, 3), Node(3, "e", {"bob"}))
Untitled == <<[Node(0, "", {}) EXCEPT !.wellFormed = FALSE]>>

Change(item, fields, names) == [item |-> item, fields |-> fields, names |-> names]

Changes == <<Change(i1, {"title", "status", "description", "assigneeUsernames"}, {"bob"}),
             Change(i2, {"description", "malformed"}, {}),
             Change("unknown", {"priority"}, {})>>

Action(tool, input, typed) == [tool |-> tool, input |-> input, typed |-> typed]

\* Sound and defective plans, with the payload in the typed field or in an input
\* that hides it.
MCDrafts ==
    {<<>>,
     <<Action(Tree, <<>>, Deep)>>,
     <<Action(Tree, <<>>, Known)>>,
     <<Action(Tree, Untitled, Deep)>>,
     <<Action(Tree, <<>>, TooDeep)>>,
     <<Action(Bulk, <<>>, Changes)>>,
     <<Action(Bulk, <<Change("", {"title"}, {})>>, <<>>)>>,
     <<Action(Sprint, <<>>, <<>>), Action(Mapping, <<>>, <<i1>>)>>,
     <<Action(Mapping, <<>>, <<>>)>>,
     <<Action(Mapping, <<"invalid">>, <<>>)>>}
=============================================================================
