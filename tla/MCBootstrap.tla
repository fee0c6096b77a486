---------------------------- MODULE MCBootstrap ----------------------------
(* Model checking of Bootstrap: every step of the plan, and the three      *)
(* ingress controllers it may meet.                                        *)
EXTENDS Bootstrap

MCReleases == {ReleaseOf(s) : s \in Enabled \ {"coredns"}}
                \cup {"traefik", "old-traefik", "nginx"}
=============================================================================
