------------------------------ MODULE Hosting ------------------------------
(***************************************************************************)
(* The two ways the repository hosts a ClearingService: behind the gateway,*)
(* which persists it, or as a tenant's service, with the tenant hub and the*)
(* reputation engine on its event bus. No code does both at once, so a     *)
(* behaviour is one or the other.                                          *)
(***************************************************************************)
EXTENDS Gateway, EventSubscribers

VARIABLE hosting     \* "gateway" or "tenant"

hostingVars == <<vars, gatewayVars, subscriberVars, hosting>>

HostingInit ==
    /\ hosting \in {"gateway", "tenant"}
    /\ Init
    /\ GatewayInit
    /\ SubscribersInit

HostingNext ==
    \/ hosting = "gateway" /\ GatewayNext /\ UNCHANGED <<subscriberVars, hosting>>
    \/ hosting = "tenant" /\ SubscribersNext /\ UNCHANGED <<gatewayVars, hosting>>

HostingSpec == HostingInit /\ [][HostingNext]_hostingVars
-----------------------------------------------------------------------------
\* What the subscribers count is what the service did: the properties of
\* EventSubscribers, where there are subscribers.
TenantCountsAreExact == hosting = "tenant" => QuietCountsAreExact
TenantVolumeIsIncome == hosting = "tenant" => VolumeIsIncome
=============================================================================
