----------------------------- MODULE MCProcess -----------------------------
EXTENDS Process

\* An organization served with an App over HTTPS, with proofs.
Organization ==
    [token |-> "", tokenFile |-> "", appClient |-> "app", appInstallation |-> 1,
     appKeyFile |-> "key", configURL |-> "organization", scaleSet |-> "set",
     runnerGroup |-> "group", pollTimeout |-> 0,
     hostID |-> "host", signingKeyFile |-> "key",
     socket |-> "", url |-> "https", clientCert |-> "cert", clientKey |-> "key",
     serverCert |-> "cert", project |-> "project", image |-> "image", owner |-> "owner",
     bootstrapTimeout |-> 1, profiles |-> <<>>, diagnosticsDir |-> "dir",
     minRunners |-> 0, maxRunners |-> 1, operations |-> 1, reconcileInterval |-> 1,
     operationTimeout |-> 1, shutdown |-> 1, retryInitial |-> 1, retryMaximum |-> 7]

\* A repository served with a token file over the local socket, without.
Repository ==
    [Organization EXCEPT !.tokenFile = "file", !.appClient = "", !.appInstallation = 0,
                         !.appKeyFile = "", !.configURL = "repository",
                         !.runnerGroup = "default", !.hostID = "", !.signingKeyFile = "",
                         !.socket = "socket", !.url = "", !.clientCert = "",
                         !.clientKey = "", !.serverCert = "", !.diagnosticsDir = "",
                         !.retryInitial = 3]

\* What else may stand in a field.
String == {"", " ", "value"}
Number == {-1, 0, 1, 2}

Alternatives ==
    [token |-> String, tokenFile |-> String, appClient |-> String,
     appInstallation |-> Number, appKeyFile |-> String,
     configURL |-> {"invalid", "organization", "repository"},
     scaleSet |-> String \cup {"unsafe"},
     runnerGroup |-> String \cup {"unsafe", "default", "Default"},
     pollTimeout |-> Number, hostID |-> String \cup {"too long"}, signingKeyFile |-> String,
     socket |-> String, url |-> String \cup {"https"}, clientCert |-> String,
     clientKey |-> String, serverCert |-> String, project |-> String, image |-> String,
     owner |-> String, bootstrapTimeout |-> Number,
     profiles |-> {<<"p">>, <<"p", " ">>}, diagnosticsDir |-> String,
     minRunners |-> Number, maxRunners |-> Number, operations |-> Number,
     reconcileInterval |-> Number, operationTimeout |-> Number, shutdown |-> Number,
     retryInitial |-> Number, retryMaximum |-> Number]

Edits(base) == UNION {{[base EXCEPT ![f] = v] : v \in Alternatives[f]} :
                      f \in DOMAIN Alternatives}

\* Pairs of delays around the largest duration and half of it.
Delays == {[Repository EXCEPT !.retryInitial = first, !.retryMaximum = cap] :
           first \in {2, 3, 4, 5}, cap \in {5, 6}}

MCConfigurations == Edits(Organization) \cup Edits(Repository) \cup Delays

\* A release, and a binary that was linked without its commit.
Release == [version |-> "1.0", commit |-> "abc"]
MCBuilds == {Release, [Release EXCEPT !.commit = ""]}
=============================================================================
