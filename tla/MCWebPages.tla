------------------------------- MODULE MCWebPages -------------------------------
(* Instances of the pages for TLC. *)
EXTENDS WebPages

MCBusinessOf == [u \in Units |-> "b1"]
MCUnitOf == [p \in Products |-> "u1"]

\* The manager's baseline has a screen, the cashier's has none.
MCBaseScreens == [b \in Baselines |-> IF b = "manager" THEN {"s1"} ELSE {}]

\* An employee with a custom role of the manager's baseline, stored before that was
\* given its screen, and the owner.
MCAccess == [m \in Members |->
  IF m = "m1" THEN [role |-> "custom", base |-> "manager", screens |-> {"s2"}]
              ELSE [role |-> "owner", base |-> "", screens |-> {}]]

\* One shop and one product.
MCEntities == [d \in Dimensions |-> IF d = "shops" THEN {"u1"} ELSE {"p1"}]
=============================================================================
