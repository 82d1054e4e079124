---------------------------- MODULE MCProxyRetry ----------------------------
(* Two calls over two countries that share a provider.  VN has direct proxies    *)
(* beside it, US another entry, without a url; one failure of each kind.         *)
EXTENDS ProxyRetry, TLC

CONSTANTS t1, t2, VN, US, direct, api, broken, d1, d2, s1

MCTasks == {t1, t2}
MCCountries == {VN, US}
MCPools == (VN :> <<direct, api>>) @@ (US :> <<api, broken>>)
MCDirectOnly == (VN :> <<direct>>) @@ (US :> <<>>)
MCOneDirect == (VN :> {d1}) @@ (US :> {})
MCTwoDirect == (VN :> {d1, d2}) @@ (US :> {})
\* The default key of an entry joins its countries in lower case, and so does not
\* begin with an upper-case code; one may be set that does.
MCKey == (api :> "US:shared") @@ (broken :> "us_2")
MCPrefixed == (VN :> {}) @@ (US :> {"US:shared"})
=============================================================================
