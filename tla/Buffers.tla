------------------------------ MODULE Buffers ------------------------------
(***************************************************************************)
(* The fixed-size character buffers a login passes through, in bytes, as   *)
(* functions of the length n of the e-mail address.  The sizes of the      *)
(* parts of a JWT are those of the libraries the server links (libjwt:     *)
(* unpadded base64url, compact JSON, a 10-digit "iat") and of the 2048-bit *)
(* RSA key generate_key.sh makes.                                          *)
(***************************************************************************)
EXTENDS Integers

EMAIL_CHAR_SIZE == 128          \* bytes of the email_address arrays
\* Mutant: a buffer twice the size.
COOKIE_BUF_1024 == 1024
COOKIE_BUF == 512               \* char buf[512] of the login handlers

Base64Length(n) == (4 * n + 2) \div 3

\* {"alg":"RS256","typ":"JWT"}
HeaderLength == 27
\* {"iat":1700000000,"iss":"LOGPROJ","sub":"<address>"}, for an address without
\* bytes that JSON escapes, which take two to six bytes each
ClaimsLength(n) == 43 + n
\* an RS256 signature under a 2048-bit key
SignatureLength == 256

\* header, claims and signature, joined by two dots
JwtLength(n) ==
  Base64Length(HeaderLength) + 1 + Base64Length(ClaimsLength(n)) + 1
    + Base64Length(SignatureLength)

CookieNameLength == 13          \* access_token=
CookieAttributesLength == 18    \* ; HttpOnly; Path=/

\* What snprintf leaves of the cookie: all but the last byte of the buffer.
Kept(total) == IF total < COOKIE_BUF THEN total ELSE COOKIE_BUF - 1

CookieLength(n) == CookieNameLength + JwtLength(n) + CookieAttributesLength

\* The whole JWT, signature included, survives in the Set-Cookie header.
TokenIntact(n) == Kept(CookieLength(n)) >= CookieNameLength + JwtLength(n)
=============================================================================
