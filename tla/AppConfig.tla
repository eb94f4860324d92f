------------------------------ MODULE AppConfig ------------------------------
(***************************************************************************)
(* AppConfig::try_from of src/src/config.rs: a command line with its       *)
(* environment is refused for the first thing wrong with it, or becomes    *)
(* the configuration.  A command line is the set of options given, the     *)
(* numeric ports, the form of --ip and the set of variables that are set.  *)
(* The value of an option matters only where it is parsed: the options     *)
(* named "bad ..." stand for one that is given and does not parse.         *)
(***************************************************************************)
EXTENDS Naturals

CONSTANTS None,
          Unset     \* a port that is not given

MaxPort == 65535

(* An optional port: the code treats zero as not given.                    *)
NonzeroPort(port) == IF port = 0 THEN Unset ELSE port

PortOr(port, default) == IF NonzeroPort(port) = Unset THEN default ELSE NonzeroPort(port)

Has(cli, option) == option \in cli.given

IncompletePair(cli, key, cert) == Has(cli, key) # Has(cli, cert)

UnusablePolicy(cli, reject, request, ca) ==
    Has(cli, reject) /\ ~(Has(cli, request) /\ Has(cli, ca))

PublicPort(cli) == PortOr(cli.port, 8000)

(* The API port that is not given follows the public one: checked_add.     *)
MutantApiPort(cli) ==  \* wraps around
    PortOr(cli.apiPort, IF Has(cli, "socket") THEN 8001
                        ELSE (PublicPort(cli) + 1) % (MaxPort + 1))
ApiPort(cli) ==
    PortOr(cli.apiPort, IF Has(cli, "socket") THEN 8001 ELSE PublicPort(cli) + 1)

ApiPortOverflow(cli) == ~Has(cli, "api-socket") /\ ApiPort(cli) > MaxPort

Store(cli) == IF Has(cli, "redis") THEN "redis"
              ELSE IF Has(cli, "sidecar") THEN "sidecar" ELSE "memory"

Needs(cli, store, variable) == Store(cli) = store /\ variable \notin cli.env

(* What is wrong with a command line, in the order of the checks.          *)
Checks(cli) == <<
    <<Has(cli, "client-ssl-request-cert"), "UnsupportedClientTlsFlag">>,
    <<Has(cli, "client-ssl-reject-unauthorized"), "UnsupportedClientTlsFlag">>,
    <<Has(cli, "ssl-allow-rc4"), "Rc4Unsupported">>,
    <<Has(cli, "error-target") /\ Has(cli, "error-path"), "ConflictingErrorHandlers">>,
    <<IncompletePair(cli, "ssl-key", "ssl-cert"), "IncompleteKeyPair">>,
    <<IncompletePair(cli, "api-ssl-key", "api-ssl-cert"), "IncompleteKeyPair">>,
    <<IncompletePair(cli, "client-ssl-key", "client-ssl-cert"), "IncompleteKeyPair">>,
    <<UnusablePolicy(cli, "ssl-reject-unauthorized", "ssl-request-cert", "ssl-ca"),
      "InvalidListenerTlsPolicy">>,
    <<UnusablePolicy(cli, "api-ssl-reject-unauthorized", "api-ssl-request-cert", "api-ssl-ca"),
      "InvalidListenerTlsPolicy">>,
    <<Has(cli, "redirect-port") /\ ~Has(cli, "ssl-key"), "RedirectWithoutTls">>,
    <<ApiPortOverflow(cli), "ApiPortOverflow">>,
    <<Has(cli, "bad target"), "InvalidTarget">>,
    <<Has(cli, "bad log level"), "InvalidLogLevel">>,
    <<Has(cli, "bad storage backend"), "UnknownStorageBackend">>,
    <<Needs(cli, "redis", "PINGORA_REDIS_URL"), "MissingRedisUrl">>,
    <<Store(cli) = "redis" /\ "bad redis variable" \in cli.env, "InvalidRedisRouteKey">>,
    <<Needs(cli, "sidecar", "PINGORA_SIDECAR_URL"), "MissingSidecarUrl">>,
    <<Needs(cli, "sidecar", "PINGORA_SIDECAR_BEARER_TOKEN"), "MissingSidecarBearerToken">>,
    <<Store(cli) = "sidecar" /\ "bad sidecar variable" \in cli.env,
      "InvalidSidecarConnectTimeout">>,
    <<Has(cli, "bad custom header"), "InvalidCustomHeader">>,
    <<"PINGORA_REQUIRE_AUTH_TOKEN" \in cli.env /\ "CONFIGPROXY_AUTH_TOKEN" \notin cli.env,
      "MissingRequiredAuthToken">> >>

TryFrom(cli) ==
    LET wrong == {i \in DOMAIN Checks(cli) : Checks(cli)[i][1]}
    IN  IF wrong = {} THEN None
        ELSE Checks(cli)[CHOOSE i \in wrong : \A j \in wrong : i <= j][2]

(* The listeners of an accepted command line.  The host of a TCP address   *)
(* is "" when no --ip is given.                                            *)
Unix == [kind |-> "unix", host |-> "", port |-> 0]
Tcp(host, port) == [kind |-> "tcp", host |-> host, port |-> port]

PublicListener(cli) ==
    IF Has(cli, "socket") THEN Unix ELSE Tcp(cli.ip, PublicPort(cli))

ApiListener(cli) ==
    IF Has(cli, "api-socket") THEN Unix ELSE Tcp("localhost", ApiPort(cli))

(* tls_config: a key pair is what makes a listener a TLS listener.         *)
PublicTls(cli) == Has(cli, "ssl-key")
ApiTls(cli) == Has(cli, "api-ssl-key")

(* redirect_configuration of src/src/main.rs: the public address must      *)
(* parse as an IP address with its port.                                   *)
RedirectConfigured(cli) ==
    PublicListener(cli).kind = "tcp" /\ PublicListener(cli).host = "address"
=============================================================================
