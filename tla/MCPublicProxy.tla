---------------------------- MODULE MCPublicProxy ----------------------------
(***************************************************************************)
(* A small instance of PublicProxy.  Either several requests meet an empty *)
(* table and render their errors through the shared resolver, or one       *)
(* request of any kind is routed by a changing table.                      *)
(***************************************************************************)
EXTENDS PublicProxy, TLC

S == "/"

(* Ascending.  Two keys spell the same segments, one has an empty segment, *)
(* one starts with a host.                                                 *)
MCKeyOrder == << <<S>>, <<S, S, "a">>, <<S, "a">>, <<S, "a", S, "b">>, <<S, "h", S, "a">> >>

MCBadTargets == {<<S, S, "a">>}

MCHealthPath == <<S, "_chp_healthz">>

MCPaths == {<<S, "a", S, "b">>, <<S, "a", "%2F", "b">>, <<S, "a", S, S, "b">>, <<S, "b", S>>,
            <<S, "a", "%">>, MCHealthPath}

MCHosts == {"h"}

Plain == [path |-> <<S, "b", S>>, host |-> "h", upgrade |-> FALSE]

Lone == CHOOSE r \in Requests : TRUE

SharedRendering ==
    /\ error_target = TRUE /\ host_routing = FALSE /\ events = 0
    /\ routes = <<>>
    /\ request = [r \in Requests |-> Plain]
    /\ place = [r \in Requests |-> "arriving"]

LoneRouting ==
    /\ error_target = FALSE /\ events = MaxEvents
    /\ \E path \in Paths, host \in Hosts, upgrade \in BOOLEAN :
          request = [r \in Requests |->
                        IF r = Lone THEN [path |-> path, host |-> host, upgrade |-> upgrade]
                                    ELSE Plain]
    /\ place = [r \in Requests |-> IF r = Lone THEN "arriving" ELSE "absent"]

MCInit == (SharedRendering \/ LoneRouting) /\ PublicInit

MCSpec == MCInit /\ [][PublicNext]_publicVars
=============================================================================
