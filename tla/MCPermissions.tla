---------------------------- MODULE MCPermissions -----------------------------
(***************************************************************************)
(* A small instance of Permissions: the managed group g, the declared but  *)
(* not yet created group h, a campus c of the live catalog, and a group 3  *)
(* nobody declares.                                                        *)
(***************************************************************************)
EXTENDS Permissions, TLC

CONSTANTS view, edit, camp, cat, mod, odd,   \* rights
          g, h, c,                           \* keys
          d1, d2,                            \* declarations
          MaxId

MCIds == 1 .. MaxId
MCField == (view :> None) @@ (edit :> "group") @@ (camp :> "campus")
           @@ (cat :> "category") @@ (mod :> None) @@ (odd :> None)
MCKindOf == (g :> "group") @@ (h :> "group") @@ (c :> "campus")
MCLiveName == (g :> None) @@ (h :> None) @@ (c :> 2)
MCState == (g :> 1) @@ (h :> None) @@ (c :> None)

NoDecl == None
Num(i) == [form |-> "num", of |-> i]
Ref(k) == [form |-> "ref", of |-> k]
Key(k) == [form |-> "bare", of |-> k]
Right(r) == [right |-> r, scope |-> None]
Scoped(r, es) == [right |-> r, scope |-> es]

\* g's role, also scoped to the group this apply creates, and h's own role
Both == (d1 :> [target |-> Num(1), keep |-> {},
                grants |-> {Right(view), Scoped(edit, {Key(g), Key(h)}), Right(mod)}])
        @@ (d2 :> [target |-> Ref(h), keep |-> {},
                   grants |-> {Right(view), Scoped(camp, {Ref(c), Num(All)})}])
\* partial ownership of g's role
Partial == (d1 :> [target |-> Ref(g), keep |-> {"category"}, grants |-> {Scoped(edit, {Ref(h)})}])
           @@ (d2 :> None)
\* refused: two declarations of one domain
Twice == (d1 :> [target |-> Ref(g), keep |-> {}, grants |-> {Right(view)}])
         @@ (d2 :> [target |-> Num(1), keep |-> {}, grants |-> {}])
\* refused: a dimension no catalog has is to be left alone
Typo == [Partial EXCEPT ![d1].keep = {"categories"}]
MCConfigs == {Both, Partial, Twice, Typo}

MCBaseline == {[right |-> view, prov |-> "inherited"]}
Live(x, r, v, t, p) == [dom |-> x, right |-> r, data |-> v, type |-> t, prov |-> p]
MCRows == {Live(1, view, NoData, "grant", "inherited"), Live(1, cat, 2, "grant", "direct"),
           Live(1, odd, NoData, "grant", "direct"), Live(1, view, NoData, "revoke", "direct"),
           Live(3, edit, 1, "grant", "direct"), Live(3, view, NoData, "grant", "system")}
MCUiRows == {Live(1, edit, 3, "grant", "direct"), Live(1, view, NoData, "grant", "inherited"),
             Live(3, camp, NoData, "grant", "direct"), Live(3, camp, 2, "grant", "inherited")}
=============================================================================
