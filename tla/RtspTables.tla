---------------------------- MODULE RtspTables ----------------------------
(***************************************************************************)
(* The tables of rtsp/rtsp.h and rtsp/header.h.  A header's name stands    *)
(* for its row; the tables are searched by the places strcmp gives names.  *)
(***************************************************************************)
EXTENDS Integers, Sequences

\* strcmp's order of the names that occur here: capitals before small letters.
Dictionary == <<
    "Accept", "Accept-Encoding", "Accept-Language", "Allow", "Authorization",
    "Bandwidth", "Blocksize", "CSeq", "Cache-Control", "Conference",
    "Connection", "Content-Base", "Content-Encoding", "Content-Language",
    "Content-Length", "Content-Location", "Content-Type", "Date", "Expires",
    "From", "Host", "If-Match", "If-Modified-Since", "Last-Modified",
    "Location", "Proxy-Authenticate", "Proxy-Require", "Public", "RTP-Info",
    "Range", "Referer", "Require", "Retry-After", "Scale", "Server",
    "Session", "Speed", "Timestamp", "Transport", "Unsupported",
    "User-Agent", "Vary", "Via", "WWW-Authenticate", "X-Unknown" >>

Place(name) == CHOOSE i \in 1 .. Len(Dictionary) : Dictionary[i] = name

general_headers == <<"Cache-Control", "Connection", "Date", "Via">>

request_headers == <<"Accept", "Accept-Encoding", "Accept-Language",
    "Authorization", "From", "If-Modified-Since", "Range", "Referer", "User-Agent">>

response_headers == <<"Location", "Proxy-Authenticate", "Public",
    "Retry-After", "Server", "Vary", "WWW-Authenticate">>

entity_headers == <<"Allow", "Content-Base", "Content-Encoding",
    "Content-Language", "Content-Length", "Content-Location", "Content-Type",
    "Expires", "Last-Modified">>

extension_headers == <<"Bandwidth", "Blocksize", "Conference", "CSeq", "Host",
    "If-Match", "Proxy-Require", "RTP-Info", "Require", "Scale", "Session",
    "Speed", "Timestamp", "Transport", "Unsupported">>

\* The sets in the order get_header goes through them.
h_set == << [type |-> "general", headers |-> general_headers],
            [type |-> "request", headers |-> request_headers],
            [type |-> "response", headers |-> response_headers],
            [type |-> "entity", headers |-> entity_headers],
            [type |-> "extension", headers |-> extension_headers] >>

\* HEADER_TYPE_REQ: what may stand in a request.
REQ == {"general", "request", "entity", "extension"}

response_status == <<100, 200, 201, 250, 300, 301, 302, 303, 305, 400, 401, 402,
    403, 404, 405, 406, 407, 408, 410, 411, 412, 413, 414, 415, 451, 452, 453,
    454, 455, 456, 457, 458, 459, 460, 461, 462, 500, 501, 502, 503, 504, 505, 551>>

methods == <<"DESCRIBE", "OPTIONS", "PLAY", "SETUP", "TEARDOWN">>

\* What the answer to OPTIONS lists.
supported_methods == <<"DESCRIBE", "OPTIONS", "PLAY", "SETUP", "TEARDOWN">>

\* A set of headers as the search sees it.
Places(headers) == [i \in 1 .. Len(headers) |-> Place(headers[i])]

===========================================================================
