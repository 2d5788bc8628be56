---------------------------- MODULE CommonTables ----------------------------
(***************************************************************************)
(* The constant data of common.h.                                          *)
(***************************************************************************)
EXTENDS Integers, Sequences

LOCAL E(name, value) == [name |-> name, value |-> value]

static_table ==
    << E(":authority", ""), E(":method", "GET"), E(":method", "POST"),
    E(":path", "/"), E(":path", "/index.html"), E(":scheme", "http"),
    E(":scheme", "https"), E(":status", "200"), E(":status", "204"),
    E(":status", "206"), E(":status", "304"), E(":status", "400"),
    E(":status", "404"), E(":status", "500"), E("accept-charset", ""),
    E("accept-encoding", "gzip, deflate"), E("accept-language", ""),
    E("accept-ranges", ""), E("accept", ""),
    E("access-control-allow-origin", ""), E("age", ""), E("allow", ""),
    E("authorization", ""), E("cache-control", ""),
    E("content-disposition", ""), E("content-encoding", ""),
    E("content-language", ""), E("content-length", ""),
    E("content-location", ""), E("content-range", ""),
    E("content-type", ""), E("cookie", ""), E("date", ""), E("etag", ""),
    E("expect", ""), E("expires", ""), E("from", ""), E("host", ""),
    E("if-match", ""), E("if-modified-since", ""), E("if-none-match", ""),
    E("if-range", ""), E("if-unmodified-since", ""),
    E("last-modified", ""), E("link", ""), E("location", ""),
    E("max-forwards", ""), E("proxy-authenticate", ""),
    E("proxy-authorization", ""), E("range", ""), E("referer", ""),
    E("refresh", ""), E("retry-after", ""), E("server", ""),
    E("set-cookie", ""), E("strict-transport-security", ""),
    E("transfer-encoding", ""), E("user-agent", ""), E("vary", ""),
    E("via", ""), E("www-authenticate", "") >>

\* By octet: the code of c is at c + 1.
huff_codes ==
    << \h1ff8, \h7fffd8, \hfffffe2, \hfffffe3, \hfffffe4, \hfffffe5,
    \hfffffe6, \hfffffe7, \hfffffe8, \hffffea, \h3ffffffc, \hfffffe9,
    \hfffffea, \h3ffffffd, \hfffffeb, \hfffffec, \hfffffed, \hfffffee,
    \hfffffef, \hffffff0, \hffffff1, \hffffff2, \h3ffffffe, \hffffff3,
    \hffffff4, \hffffff5, \hffffff6, \hffffff7, \hffffff8, \hffffff9,
    \hffffffa, \hffffffb, \h14, \h3f8, \h3f9, \hffa, \h1ff9, \h15, \hf8,
    \h7fa, \h3fa, \h3fb, \hf9, \h7fb, \hfa, \h16, \h17, \h18, \h0, \h1,
    \h2, \h19, \h1a, \h1b, \h1c, \h1d, \h1e, \h1f, \h5c, \hfb, \h7ffc,
    \h20, \hffb, \h3fc, \h1ffa, \h21, \h5d, \h5e, \h5f, \h60, \h61, \h62,
    \h63, \h64, \h65, \h66, \h67, \h68, \h69, \h6a, \h6b, \h6c, \h6d, \h6e,
    \h6f, \h70, \h71, \h72, \hfc, \h73, \hfd, \h1ffb, \h7fff0, \h1ffc,
    \h3ffc, \h22, \h7ffd, \h3, \h23, \h4, \h24, \h5, \h25, \h26, \h27, \h6,
    \h74, \h75, \h28, \h29, \h2a, \h7, \h2b, \h76, \h2c, \h8, \h9, \h2d,
    \h77, \h78, \h79, \h7a, \h7b, \h7ffe, \h7fc, \h3ffd, \h1ffd, \hffffffc,
    \hfffe6, \h3fffd2, \hfffe7, \hfffe8, \h3fffd3, \h3fffd4, \h3fffd5,
    \h7fffd9, \h3fffd6, \h7fffda, \h7fffdb, \h7fffdc, \h7fffdd, \h7fffde,
    \hffffeb, \h7fffdf, \hffffec, \hffffed, \h3fffd7, \h7fffe0, \hffffee,
    \h7fffe1, \h7fffe2, \h7fffe3, \h7fffe4, \h1fffdc, \h3fffd8, \h7fffe5,
    \h3fffd9, \h7fffe6, \h7fffe7, \hffffef, \h3fffda, \h1fffdd, \hfffe9,
    \h3fffdb, \h3fffdc, \h7fffe8, \h7fffe9, \h1fffde, \h7fffea, \h3fffdd,
    \h3fffde, \hfffff0, \h1fffdf, \h3fffdf, \h7fffeb, \h7fffec, \h1fffe0,
    \h1fffe1, \h3fffe0, \h1fffe2, \h7fffed, \h3fffe1, \h7fffee, \h7fffef,
    \hfffea, \h3fffe2, \h3fffe3, \h3fffe4, \h7ffff0, \h3fffe5, \h3fffe6,
    \h7ffff1, \h3ffffe0, \h3ffffe1, \hfffeb, \h7fff1, \h3fffe7, \h7ffff2,
    \h3fffe8, \h1ffffec, \h3ffffe2, \h3ffffe3, \h3ffffe4, \h7ffffde,
    \h7ffffdf, \h3ffffe5, \hfffff1, \h1ffffed, \h7fff2, \h1fffe3,
    \h3ffffe6, \h7ffffe0, \h7ffffe1, \h3ffffe7, \h7ffffe2, \hfffff2,
    \h1fffe4, \h1fffe5, \h3ffffe8, \h3ffffe9, \hffffffd, \h7ffffe3,
    \h7ffffe4, \h7ffffe5, \hfffec, \hfffff3, \hfffed, \h1fffe6, \h3fffe9,
    \h1fffe7, \h1fffe8, \h7ffff3, \h3fffea, \h3fffeb, \h1ffffee, \h1ffffef,
    \hfffff4, \hfffff5, \h3ffffea, \h7ffff4, \h3ffffeb, \h7ffffe6,
    \h3ffffec, \h3ffffed, \h7ffffe7, \h7ffffe8, \h7ffffe9, \h7ffffea,
    \h7ffffeb, \hffffffe, \h7ffffec, \h7ffffed, \h7ffffee, \h7ffffef,
    \h7fffff0, \h3ffffee >>

huff_lengths ==
    << 13, 23, 28, 28, 28, 28, 28, 28, 28, 24, 30, 28, 28, 30, 28, 28, 28,
    28, 28, 28, 28, 28, 30, 28, 28, 28, 28, 28, 28, 28, 28, 28, 6, 10, 10,
    12, 13, 6, 8, 11, 10, 10, 8, 11, 8, 6, 6, 6, 5, 5, 5, 6, 6, 6, 6, 6, 6,
    6, 7, 8, 15, 6, 12, 10, 13, 6, 7, 7, 7, 7, 7, 7, 7, 7, 7, 7, 7, 7, 7,
    7, 7, 7, 7, 7, 7, 7, 7, 7, 8, 7, 8, 13, 19, 13, 14, 6, 15, 5, 6, 5, 6,
    5, 6, 6, 6, 5, 7, 7, 6, 6, 6, 5, 6, 7, 6, 5, 5, 6, 7, 7, 7, 7, 7, 15,
    11, 14, 13, 28, 20, 22, 20, 20, 22, 22, 22, 23, 22, 23, 23, 23, 23, 23,
    24, 23, 24, 24, 22, 23, 24, 23, 23, 23, 23, 21, 22, 23, 22, 23, 23, 24,
    22, 21, 20, 22, 22, 23, 23, 21, 23, 22, 22, 24, 21, 22, 23, 23, 21, 21,
    22, 21, 23, 22, 23, 23, 20, 22, 22, 22, 23, 22, 22, 23, 26, 26, 20, 19,
    22, 23, 22, 25, 26, 26, 26, 27, 27, 26, 24, 25, 19, 21, 26, 27, 27, 26,
    27, 24, 21, 21, 26, 26, 28, 27, 27, 27, 20, 24, 20, 21, 22, 21, 21, 23,
    22, 22, 25, 25, 24, 24, 26, 23, 26, 27, 26, 26, 27, 27, 27, 27, 27, 28,
    27, 27, 27, 27, 27, 26 >>

\* The value of each entry, and its msb_code without the last two of its 32
\* bits: no code has more than 30, so they are zeros.  This is the first half.
FirstEntries ==
    << <<\h0,48>>, <<\h2000000,49>>, <<\h4000000,50>>, <<\h6000000,97>>,
    <<\h8000000,99>>, <<\ha000000,101>>, <<\hc000000,105>>,
    <<\he000000,111>>, <<\h10000000,115>>, <<\h12000000,116>>,
    <<\h14000000,32>>, <<\h15000000,37>>, <<\h16000000,45>>,
    <<\h17000000,46>>, <<\h18000000,47>>, <<\h19000000,51>>,
    <<\h1a000000,52>>, <<\h1b000000,53>>, <<\h1c000000,54>>,
    <<\h1d000000,55>>, <<\h1e000000,56>>, <<\h1f000000,57>>,
    <<\h20000000,61>>, <<\h21000000,65>>, <<\h22000000,95>>,
    <<\h23000000,98>>, <<\h24000000,100>>, <<\h25000000,102>>,
    <<\h26000000,103>>, <<\h27000000,104>>, <<\h28000000,108>>,
    <<\h29000000,109>>, <<\h2a000000,110>>, <<\h2b000000,112>>,
    <<\h2c000000,114>>, <<\h2d000000,117>>, <<\h2e000000,58>>,
    <<\h2e800000,66>>, <<\h2f000000,67>>, <<\h2f800000,68>>,
    <<\h30000000,69>>, <<\h30800000,70>>, <<\h31000000,71>>,
    <<\h31800000,72>>, <<\h32000000,73>>, <<\h32800000,74>>,
    <<\h33000000,75>>, <<\h33800000,76>>, <<\h34000000,77>>,
    <<\h34800000,78>>, <<\h35000000,79>>, <<\h35800000,80>>,
    <<\h36000000,81>>, <<\h36800000,82>>, <<\h37000000,83>>,
    <<\h37800000,84>>, <<\h38000000,85>>, <<\h38800000,86>>,
    <<\h39000000,87>>, <<\h39800000,89>>, <<\h3a000000,106>>,
    <<\h3a800000,107>>, <<\h3b000000,113>>, <<\h3b800000,118>>,
    <<\h3c000000,119>>, <<\h3c800000,120>>, <<\h3d000000,121>>,
    <<\h3d800000,122>>, <<\h3e000000,38>>, <<\h3e400000,42>>,
    <<\h3e800000,44>>, <<\h3ec00000,59>>, <<\h3f000000,88>>,
    <<\h3f400000,90>>, <<\h3f800000,33>>, <<\h3f900000,34>>,
    <<\h3fa00000,40>>, <<\h3fb00000,41>>, <<\h3fc00000,63>>,
    <<\h3fd00000,39>>, <<\h3fd80000,43>>, <<\h3fe00000,124>>,
    <<\h3fe80000,35>>, <<\h3fec0000,62>>, <<\h3ff00000,0>>,
    <<\h3ff20000,36>>, <<\h3ff40000,64>>, <<\h3ff60000,91>>,
    <<\h3ff80000,93>>, <<\h3ffa0000,126>>, <<\h3ffc0000,94>>,
    <<\h3ffd0000,125>>, <<\h3ffe0000,60>>, <<\h3ffe8000,96>>,
    <<\h3fff0000,123>>, <<\h3fff8000,92>>, <<\h3fff8800,195>>,
    <<\h3fff9000,208>>, <<\h3fff9800,128>>, <<\h3fff9c00,130>>,
    <<\h3fffa000,131>>, <<\h3fffa400,162>>, <<\h3fffa800,184>>,
    <<\h3fffac00,194>>, <<\h3fffb000,224>>, <<\h3fffb400,226>>,
    <<\h3fffb800,153>>, <<\h3fffba00,161>>, <<\h3fffbc00,167>>,
    <<\h3fffbe00,172>>, <<\h3fffc000,176>>, <<\h3fffc200,177>>,
    <<\h3fffc400,179>>, <<\h3fffc600,209>>, <<\h3fffc800,216>>,
    <<\h3fffca00,217>>, <<\h3fffcc00,227>>, <<\h3fffce00,229>>,
    <<\h3fffd000,230>>, <<\h3fffd200,129>>, <<\h3fffd300,132>>,
    <<\h3fffd400,133>>, <<\h3fffd500,134>>, <<\h3fffd600,136>>,
    <<\h3fffd700,146>>, <<\h3fffd800,154>>, <<\h3fffd900,156>>,
    <<\h3fffda00,160>> >>

LastEntries ==
    << <<\h3fffdb00,163>>, <<\h3fffdc00,164>>, <<\h3fffdd00,169>>,
    <<\h3fffde00,170>>, <<\h3fffdf00,173>>, <<\h3fffe000,178>>,
    <<\h3fffe100,181>>, <<\h3fffe200,185>>, <<\h3fffe300,186>>,
    <<\h3fffe400,187>>, <<\h3fffe500,189>>, <<\h3fffe600,190>>,
    <<\h3fffe700,196>>, <<\h3fffe800,198>>, <<\h3fffe900,228>>,
    <<\h3fffea00,232>>, <<\h3fffeb00,233>>, <<\h3fffec00,1>>,
    <<\h3fffec80,135>>, <<\h3fffed00,137>>, <<\h3fffed80,138>>,
    <<\h3fffee00,139>>, <<\h3fffee80,140>>, <<\h3fffef00,141>>,
    <<\h3fffef80,143>>, <<\h3ffff000,147>>, <<\h3ffff080,149>>,
    <<\h3ffff100,150>>, <<\h3ffff180,151>>, <<\h3ffff200,152>>,
    <<\h3ffff280,155>>, <<\h3ffff300,157>>, <<\h3ffff380,158>>,
    <<\h3ffff400,165>>, <<\h3ffff480,166>>, <<\h3ffff500,168>>,
    <<\h3ffff580,174>>, <<\h3ffff600,175>>, <<\h3ffff680,180>>,
    <<\h3ffff700,182>>, <<\h3ffff780,183>>, <<\h3ffff800,188>>,
    <<\h3ffff880,191>>, <<\h3ffff900,197>>, <<\h3ffff980,231>>,
    <<\h3ffffa00,239>>, <<\h3ffffa80,9>>, <<\h3ffffac0,142>>,
    <<\h3ffffb00,144>>, <<\h3ffffb40,145>>, <<\h3ffffb80,148>>,
    <<\h3ffffbc0,159>>, <<\h3ffffc00,171>>, <<\h3ffffc40,206>>,
    <<\h3ffffc80,215>>, <<\h3ffffcc0,225>>, <<\h3ffffd00,236>>,
    <<\h3ffffd40,237>>, <<\h3ffffd80,199>>, <<\h3ffffda0,207>>,
    <<\h3ffffdc0,234>>, <<\h3ffffde0,235>>, <<\h3ffffe00,192>>,
    <<\h3ffffe10,193>>, <<\h3ffffe20,200>>, <<\h3ffffe30,201>>,
    <<\h3ffffe40,202>>, <<\h3ffffe50,205>>, <<\h3ffffe60,210>>,
    <<\h3ffffe70,213>>, <<\h3ffffe80,218>>, <<\h3ffffe90,219>>,
    <<\h3ffffea0,238>>, <<\h3ffffeb0,240>>, <<\h3ffffec0,242>>,
    <<\h3ffffed0,243>>, <<\h3ffffee0,255>>, <<\h3ffffef0,203>>,
    <<\h3ffffef8,204>>, <<\h3fffff00,211>>, <<\h3fffff08,212>>,
    <<\h3fffff10,214>>, <<\h3fffff18,221>>, <<\h3fffff20,222>>,
    <<\h3fffff28,223>>, <<\h3fffff30,241>>, <<\h3fffff38,244>>,
    <<\h3fffff40,245>>, <<\h3fffff48,246>>, <<\h3fffff50,247>>,
    <<\h3fffff58,248>>, <<\h3fffff60,250>>, <<\h3fffff68,251>>,
    <<\h3fffff70,252>>, <<\h3fffff78,253>>, <<\h3fffff80,254>>,
    <<\h3fffff88,2>>, <<\h3fffff8c,3>>, <<\h3fffff90,4>>, <<\h3fffff94,5>>,
    <<\h3fffff98,6>>, <<\h3fffff9c,7>>, <<\h3fffffa0,8>>,
    <<\h3fffffa4,11>>, <<\h3fffffa8,12>>, <<\h3fffffac,14>>,
    <<\h3fffffb0,15>>, <<\h3fffffb4,16>>, <<\h3fffffb8,17>>,
    <<\h3fffffbc,18>>, <<\h3fffffc0,19>>, <<\h3fffffc4,20>>,
    <<\h3fffffc8,21>>, <<\h3fffffcc,23>>, <<\h3fffffd0,24>>,
    <<\h3fffffd4,25>>, <<\h3fffffd8,26>>, <<\h3fffffdc,27>>,
    <<\h3fffffe0,28>>, <<\h3fffffe4,29>>, <<\h3fffffe8,30>>,
    <<\h3fffffec,31>>, <<\h3ffffff0,127>>, <<\h3ffffff4,220>>,
    <<\h3ffffff8,249>>, <<\h3ffffffc,10>>, <<\h3ffffffd,13>>,
    <<\h3ffffffe,22>> >>

huff_decode_table ==
    [i \in 1 .. 256 |-> LET e == IF i <= 128 THEN FirstEntries[i] ELSE LastEntries[i - 128]
                       IN  [msb_code |-> e[1], value |-> e[2]]]
=============================================================================
