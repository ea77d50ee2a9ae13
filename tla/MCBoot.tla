-------------------------------- MODULE MCBoot --------------------------------
(* Files and configurations for model checking Boot: one configuration that is *)
(* right, and others that differ from it in one respect or two.                *)
EXTENDS Boot

Right == [named |-> TRUE, addr |-> <<"", "8080">>, dsns |-> {"postgres"}, secret |-> 0,
          session |-> [enable |-> TRUE, named |-> TRUE, driver |-> "memory",
                       host |-> FALSE, expiration |-> 3],
          tls |-> [enable |-> FALSE, given |-> {}],
          storage |-> [driver |-> "local", given |-> {"path"}],
          origins |-> "*", frontend |-> "app", prefork |-> FALSE]

Addresses == {<<"8080">>, <<"0", "8080">>, <<"abc">>, <<"", "0">>, <<"", "70000">>, <<"", "8080", "0">>}

Single == {Right}
  \cup {[Right EXCEPT !.addr = a] : a \in Addresses}
  \cup {[Right EXCEPT !.session.expiration = e] : e \in {0, 1, 5, 10, 25}}
  \cup {[Right EXCEPT !.frontend = "", !.origins = o] : o \in {"", "*", "app"}}
  \cup {[Right EXCEPT !.frontend = "bare"]}
  \cup {[Right EXCEPT !.session.driver = "redis", !.session.host = h] : h \in BOOLEAN}
  \cup {[Right EXCEPT !.session.enable = FALSE, !.secret = s] : s \in {31, 32}}
  \cup {[Right EXCEPT !.tls = [enable |-> TRUE, given |-> g]] : g \in {{"cert"}, {"cert", "key"}}}
  \cup {[Right EXCEPT !.storage.driver = d] : d \in {"", "s3", "disk"}}
  \cup {[Right EXCEPT !.named = FALSE], [Right EXCEPT !.dsns = {}],
        [Right EXCEPT !.session.named = FALSE]}

Preforking == {[Right EXCEPT !.prefork = TRUE], [Right EXCEPT !.prefork = TRUE, !.frontend = ""],
               [Right EXCEPT !.prefork = TRUE, !.named = FALSE],
               [Right EXCEPT !.prefork = TRUE, !.addr = <<"", "0">>]}

MCConfigs == Single \cup Preforking

MCEdits == {Missing, Right, [Right EXCEPT !.prefork = TRUE, !.named = FALSE]}

MCCandidates == <<"config.toml", "config/config.toml", "config.toml">>

Tokens == {"", "0", "8080", "70000", "abc"}

MCNumberOf == [t \in Tokens |-> CASE t = "0" -> 0 [] t = "8080" -> 8080
                                  [] t = "70000" -> 70000 [] OTHER -> -1]

NotNumber == -1

MCEphemeral == {32768, 32769}
=============================================================================
