-------------------------- MODULE MCProcessLifecycle --------------------------
(***************************************************************************)
(* ProcessLifecycle for TLC.  Served command lines reach the services; the *)
(* others differ in one thing that startup refuses, or in their ports.     *)
(***************************************************************************)
EXTENDS ProcessLifecycle

Cli(given, port, apiPort, ip, env) ==
    [given |-> given, port |-> port, apiPort |-> apiPort, ip |-> ip, env |-> env]

Plain(given) == Cli(given, Unset, Unset, "", {})

Tls == {"ssl-key", "ssl-cert"}

ServedClis == {
    Plain({"socket", "pid-file", "api-ssl-key", "api-ssl-cert"}),
    Cli(Tls \cup {"redirect-port", "metrics-port", "pid-file"}, 8443, Unset, "address", {})}

(* Each of these is wrong in one way.                                      *)
RefusedClis == {Plain(g) : g \in {
      {"client-ssl-request-cert"}, {"client-ssl-reject-unauthorized"}, {"ssl-allow-rc4"},
      {"error-target", "error-path"}, {"ssl-key"}, {"api-ssl-cert"}, {"client-ssl-key"},
      {"ssl-reject-unauthorized", "ssl-ca"}, {"api-ssl-reject-unauthorized"},
      {"redirect-port"}, {"bad target"}, {"bad log level"}, {"bad storage backend"},
      {"redis"}, {"sidecar"}, {"bad custom header"},
      Tls \cup {"socket"}, {"api-socket", "api-ssl-key", "api-ssl-cert"},
      Tls \cup {"redirect-port", "socket"}}}
   \cup {Cli({"redis"}, Unset, Unset, "", {"PINGORA_REDIS_URL", "bad redis variable"}),
         Cli({"sidecar"}, Unset, Unset, "", {"PINGORA_SIDECAR_URL"}),
         Cli({}, Unset, Unset, "", {"PINGORA_REQUIRE_AUTH_TOKEN"})}

PortClis == {Cli({"redirect-port", "pid-file"} \cup Tls, port, apiPort, ip, {}) :
                port \in {0, 1, 65535}, apiPort \in {0, 65535}, ip \in {"", "name"}}

MCClis == ServedClis \cup RefusedClis \cup PortClis
=============================================================================
