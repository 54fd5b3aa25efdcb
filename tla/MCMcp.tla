------------------------------- MODULE MCMcp --------------------------------
\* The MCP servers on small instances.
EXTENDS Mcp, TLC

Symmetry == Permutations(Actors)

Fine          == [tool |-> "fine", args |-> "clean", reply |-> "clean"]
SmallRequests == {[Fine EXCEPT !.tool = "shell"], [Fine EXCEPT !.tool = "barred"],
                  [Fine EXCEPT !.reply = "hit"]}

\* Two upstreams that list, of two tools, what is approved and what is not
TwoUpstreams  == <<"u", "v">>
Tool(n, d)    == [name |-> n, descriptor |-> d]
SmallListings == {<<Tool("a", 1), Tool("b", 2)>>, <<Tool("a", 2)>>, <<Tool("b", 1)>>}
SomeApproved  == {<<"u", Tool("a", 1)>>, <<"v", Tool("a", 2)>>}
SomeAlerting  == {<<"u", Tool("b", 2)>>}
=============================================================================
