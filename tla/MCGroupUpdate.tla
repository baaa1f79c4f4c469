--------------------------- MODULE MCGroupUpdate ---------------------------
(* Instance of GroupUpdate for TLC: a list in which one name comes twice   *)
(* and its new name is taken, and two profiles have one content, and a     *)
(* list of two profiles without names, of which the second is a host that   *)
(* may be found at the address of the first.                                *)
EXTENDS GroupUpdate

B(a, b) == [address |-> a, sni |-> "none", rest |-> b]
P(n, s, b) == [name |-> [base |-> n, suffixes |-> s], body |-> B("ip", b)]
Host(h, b) == [name |-> AddressName(h), body |-> B(h, b)]
SmallLists == {<<P("a", <<1>>, "x"), P("a", <<>>, "x"), P("a", <<>>, "y")>>,
               <<Host("ip", "y"), Host("h", "x")>>}
=============================================================================
