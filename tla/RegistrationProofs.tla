-------------------------- MODULE RegistrationProofs --------------------------
(***************************************************************************)
(* What the checks of module Registration find out, for every form and      *)
(* every day.                                                               *)
(***************************************************************************)
EXTENDS Registration, FiniteSetTheorems, SequenceTheorems, TLAPS

(* The last year in which d's day of the year has come, counted on today.    *)
LastBirthday(d, today) ==
    IF NotAfter([d EXCEPT !.year = today.year], today) THEN today.year ELSE today.year - 1

LEMMA BirthdaysInterval ==
  ASSUME NEW d \in Date, NEW today \in Date
  PROVE  Birthdays(d, today) = d.year + 1 .. LastBirthday(d, today)
<1>1. /\ d.year \in Int /\ d.month \in Int /\ d.day \in Int
      /\ today.year \in Int /\ today.month \in Int /\ today.day \in Int
  BY DEF Date
<1>2. \A y : /\ [d EXCEPT !.year = y].year = y
             /\ [d EXCEPT !.year = y].month = d.month
             /\ [d EXCEPT !.year = y].day = d.day
  BY DEF Date
<1>. QED  BY <1>1, <1>2 DEF Birthdays, LastBirthday, NotAfter

(* consistency() works out the age a person has: on the birthday itself, the *)
(* day before it, and for whoever is born in the current month or year.      *)
THEOREM AgeIsTrue ==
  ASSUME NEW d \in Date, NEW today \in Date, NotAfter(d, today)
  PROVE  Age(d, today) = TrueAge(d, today)
<1>1. /\ d.year \in Int /\ d.month \in Int /\ d.day \in Int
      /\ today.year \in Int /\ today.month \in Int /\ today.day \in Int
  BY DEF Date
<1>2. /\ [d EXCEPT !.year = today.year].year = today.year
      /\ [d EXCEPT !.year = today.year].month = d.month
      /\ [d EXCEPT !.year = today.year].day = d.day
  BY DEF Date
<1>3. LastBirthday(d, today) \in Int /\ LastBirthday(d, today) >= d.year
  BY <1>1, <1>2 DEF LastBirthday, NotAfter
<1>4. TrueAge(d, today) = LastBirthday(d, today) - d.year
  <2>1. \A a, b \in Int : Cardinality(a .. b) = IF a > b THEN 0 ELSE b - a + 1
    BY FS_Interval
  <2>2. d.year + 1 \in Int
    BY <1>1
  <2>3. Cardinality(d.year + 1 .. LastBirthday(d, today)) =
          IF d.year + 1 > LastBirthday(d, today) THEN 0
          ELSE LastBirthday(d, today) - (d.year + 1) + 1
    BY <1>3, <2>1, <2>2
  <2>. QED  BY <1>1, <1>3, <2>3, BirthdaysInterval DEF TrueAge
<1>5. Age(d, today) = LastBirthday(d, today) - d.year
  BY <1>1, <1>2 DEF Age, LastBirthday, NotAfter
<1>. QED  BY <1>4, <1>5

(* A date that passes check_DOB is in the calendar (29 February is not let   *)
(* through, though it may be).                                               *)
THEOREM DOBIsDate ==
  ASSUME NEW d \in Date, check_DOB(d)
  PROVE  IsDate(d)
BY DEF Date, check_DOB, LastDay, LongMonths, ShortMonths, IsDate, DaysIn, Leap

(* check_CNIC lets through the CNICs ddddd-ddddddd-d and nothing else.       *)
THEOREM CNICPattern ==
  ASSUME NEW s \in Seq(Int)
  PROVE  check_CNIC(s) <=> IsCNIC(s)
<1>1. CASE Len(s) # 15
  BY <1>1 DEF check_CNIC, IsCNIC
<1>2. CASE Len(s) = 15
  <2>1. DOMAIN s = 1 .. 15 /\ \A i \in 1 .. 15 : s[i] \in Int
    <3>1. DOMAIN s = 1 .. Len(s) /\ \A i \in 1 .. Len(s) : s[i] \in Int
      BY LenProperties
    <3>. QED  BY <3>1, <1>2
  <2>2. (\A c \in Chars(s) : ~ ((c < 48 /\ c # Dash) \/ c > 57))
          <=> \A i \in 1 .. 15 : ~ ((s[i] < 48 /\ s[i] # Dash) \/ s[i] > 57)
    BY <2>1 DEF Chars
  <2>3. check_CNIC(s) <=>
          /\ \A i \in 1 .. 15 : ~ ((s[i] < 48 /\ s[i] # Dash) \/ s[i] > 57)
          /\ \A i \in 1 .. 15 : IF i \in {6, 14} THEN s[i] = Dash ELSE s[i] # Dash
    BY <1>2, <2>1, <2>2 DEF check_CNIC
  <2>4. IsCNIC(s) <=>
          \A i \in 1 .. 15 : IF i \in {6, 14} THEN s[i] = Dash ELSE 48 <= s[i] /\ s[i] <= 57
    BY <1>2 DEF IsCNIC, Digit
  <2>5. ASSUME NEW i \in 1 .. 15
        PROVE  (/\ ~ ((s[i] < 48 /\ s[i] # Dash) \/ s[i] > 57)
                /\ IF i \in {6, 14} THEN s[i] = Dash ELSE s[i] # Dash)
               <=> IF i \in {6, 14} THEN s[i] = Dash ELSE 48 <= s[i] /\ s[i] <= 57
    <3>1. s[i] \in Int
      BY <2>1
    <3>2. CASE i \in {6, 14}
      BY <3>1, <3>2 DEF Dash
    <3>3. CASE i \notin {6, 14}
      BY <3>1, <3>3 DEF Dash
    <3>. QED  BY <3>2, <3>3
  <2>. QED  BY <2>3, <2>4, <2>5, Zenon
<1>. QED  BY <1>1, <1>2

(* The years a date of birth may have are written into check_DOB, the ages   *)
(* into check_age.  Since 2023 nobody who is ten, which check_age lets        *)
(* through, can send the form, whatever age is typed in; in 2022 those born   *)
(* in 2011 can, and those born in 2012 cannot.                                *)
THEOREM TenIsRefused ==
  ASSUME NEW today \in Date, NEW d \in Date, NotAfter(d, today), TrueAge(d, today) = 10
  PROVE  /\ today.year >= 2023 => \A age \in Int : ~ input_DOB(d, age, today)
         /\ today.year = 2022 /\ IsDate(d) =>
               (check_age(10) /\ input_DOB(d, 10, today) <=> d.year = 2011)
<1>1. /\ d.year \in Int /\ d.month \in Int /\ d.day \in Int
      /\ today.year \in Int /\ today.month \in Int /\ today.day \in Int
  BY DEF Date
<1>2. Age(d, today) = 10
  BY AgeIsTrue
<1>3. d.year = today.year - 10 \/ d.year = today.year - 11
  BY <1>1, <1>2 DEF Age
<1>4. ASSUME today.year >= 2023 PROVE \A age \in Int : ~ input_DOB(d, age, today)
  BY <1>1, <1>3, <1>4 DEF input_DOB, check_DOB
<1>5. ASSUME today.year = 2022, IsDate(d)
      PROVE  check_age(10) /\ input_DOB(d, 10, today) <=> d.year = 2011
  <2>1. d.year = 2011 => ~ (d.day < 1 \/ d.day > LastDay(d.month))
    BY <1>1, <1>5 DEF IsDate, DaysIn, Leap, LastDay, LongMonths, ShortMonths
  <2>2. d.year = 2011 => check_DOB(d)
    BY <1>1, <1>5, <2>1 DEF check_DOB, IsDate
  <2>3. check_DOB(d) => d.year = 2011
    BY <1>1, <1>3, <1>5 DEF check_DOB
  <2>. QED  BY <1>2, <2>2, <2>3 DEF input_DOB, consistency, check_age
<1>. QED  BY <1>4, <1>5
=============================================================================
