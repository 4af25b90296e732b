----------------------------- MODULE ServiceOrigin ----------------------------
(***************************************************************************)
(* Which origins the clients of the bridge and of the coordinator talk to.  *)
(* A URL is its scheme and its folded host; an allowlist is None or the     *)
(* sequence of its entries.                                                 *)
(***************************************************************************)
EXTENDS Optional, Sequences, SequencesExt

CONSTANTS LoopbackHosts,   \* what is_loopback_host accepts
          ClusterHosts     \* exact *.svc.cluster.local names

\* Mutant: any name may be listed.
parse_internal_http_hosts_any(raw) == IF raw = None THEN {} ELSE ToSet(raw)

\* None when an entry is not an exact name inside the cluster.
parse_internal_http_hosts(raw) ==
    IF raw = None THEN {}
    ELSE IF ToSet(raw) \subseteq ClusterHosts THEN ToSet(raw)
    ELSE None

\* The allowlist is only read for plain HTTP to another host.
validate_service_transport(url, allowlist) ==
    LET hosts == parse_internal_http_hosts(allowlist)
    IN  \/ url.scheme = "https"
        \/ url.scheme = "http" /\ url.host \in LoopbackHosts
        \/ url.scheme = "http" /\ hosts # None /\ url.host \in hosts

\* A service on another host needs a bearer.
validate_service_origin(url, bearer, allowlist) ==
    /\ validate_service_transport(url, allowlist)
    /\ url.host \notin LoopbackHosts => bearer # None
=============================================================================
